---------------------------- MODULE Spec2Model ----------------------------
(***************************************************************************)
(* Model of the lexical scanner of src/src/parsing/scanner.h: the UTF-16   *)
(* code-unit stream, the literal buffer and the Scanner's lookahead,       *)
(* bookmark and error state.                                               *)
(***************************************************************************)
EXTENDS Integers, Sequences, FiniteSets, TLC

VARIABLES
  lb,          \* the LiteralBuffer under test: is_one_byte_, position_, backing_store_
  lb_other,    \* a second LiteralBuffer, the argument of CopyFrom
  lb_hist,     \* history: the code units appended to lb and still in it
  lb_op,       \* history: the last LiteralBuffer operation
  lb_fill,     \* the length of the ASCII run lb starts with
  lb_adds,     \* history: TRUE while only AddChar has been called on lb
  lb_n,        \* history: number of operations so far
  lb_arg,      \* history: the arguments and the result of the last LiteralBuffer operation
  lb_shared,   \* TRUE while lb and lb_other have one backing store between them
  stream,      \* the Utf16CharacterStream under test
  st_log,      \* history: the last stream call, what Advance() returned so far
  scanner,     \* the Scanner: its members, source_ holding the stream
  op,          \* history: the last Scanner operation, its argument and what it returned
  pending,     \* history: the kinds PeekAhead() promised for the next Next() calls
  snap,        \* history: what was observable when the bookmark was set
  since,       \* history: Next()/PeekAhead() calls since the bookmark was set
  nops,        \* history: number of Scanner operations after Initialize()
  low,         \* history of the low-level calls: the stream calls made, the open LiteralScope
  dup,         \* the DuplicateFinder under test: backing_store_ and map_
  dup_log,     \* history: the adds made to dup, what each returned and the entry it used
  mo           \* the MoveOptimizer: code_ (the merge block and its predecessors), to_finalize_

lbvars == <<lb, lb_other, lb_fill, lb_hist, lb_op, lb_adds, lb_n, lb_arg,
            lb_shared>>

stvars == <<stream, st_log>>

scvars == <<scanner, op, pending, snap, since, nops>>

dupvars == <<dup, dup_log>>

\* A MoveOptimizer that has been given no code.
NoCode == [preds |-> <<>>, block |-> <<>>]
NoOptimizer == [ran |-> FALSE, code |-> NoCode, to_finalize_ |-> <<>>,
                given |-> NoCode]
MoIdle == mo = NoOptimizer

vars == <<lb, lb_other, lb_fill, lb_hist, lb_op, lb_adds, lb_n, lb_arg,
          lb_shared, stream, st_log,
          scanner, op, pending, snap, since, nops, low, dup, dup_log, mo>>

Max(a, b) == IF a >= b THEN a ELSE b
Min(a, b) == IF a <= b THEN a ELSE b

(***************************************************************************)
(* LiteralBuffer                                                           *)
(***************************************************************************)
kOneByteSize == 1
kUC16Size == 2
kLatin1MaxChar == 255
kMaxNonSurrogateCharCode == 65535
kInitialCapacity == 16
kGrowthFactory == 4
MB == 1048576
kMaxGrowth == 1 * MB

\* The content of a byte of a freshly allocated store: no code path reads it
\* before it is written.
Uninit == 0 - 1

LeadSurrogate(c) == 55296 + (((c - 65536) \div 1024) % 1024)
TrailSurrogate(c) == 56320 + (c % 1024)

\* Vector<byte>::New(n)
NewStore(n) == [k \in 1..n |-> Uninit] \o <<>>

\* LiteralBuffer()
NewLiteralBuffer == [is_one_byte_ |-> TRUE, position_ |-> 0, backing_store_ |-> <<>>]

\* *reinterpret_cast<uint16_t*>(&store[pos]) = unit
WriteU16(store, pos, unit) ==
  [store EXCEPT ![pos + 1] = unit % 256, ![pos + 2] = unit \div 256]

\* reinterpret_cast<const uint16_t*>(store)[i]
ReadU16(store, i) == store[2 * i + 1] + 256 * store[2 * i + 2]

NewCapacity(b, min_capacity) ==
  LET capacity == Max(min_capacity, Len(b.backing_store_))
  IN  Min(capacity * kGrowthFactory, capacity + kMaxGrowth)

ExpandBuffer(b) ==
  LET new_store == NewStore(NewCapacity(b, kInitialCapacity))
  IN  \* MemCopy(new_store.start(), backing_store_.start(), position_)
      [b EXCEPT !.backing_store_ =
         SubSeq(b.backing_store_, 1, b.position_)
           \o SubSeq(new_store, b.position_ + 1, Len(new_store))]

\* Faulty variant of WidenLoop: the loop runs from unit 0 upwards, so that in
\* place the later iterations read bytes already overwritten.
RECURSIVE AscendingRead(_, _)
AscendingRead(src, i) ==
  IF i = 0 THEN src[1]
  ELSE IF i % 2 = 1 THEN 0 ELSE AscendingRead(src, i \div 2)

WidenLoop_Ascending(src, dst, n) ==
  [k \in 1..Len(dst) |->
     IF k <= 2 * n
     THEN LET unit == IF src = dst THEN AscendingRead(src, (k - 1) \div 2)
                      ELSE src[(k + 1) \div 2]
          IN  IF k % 2 = 1 THEN unit % 256 ELSE unit \div 256
     ELSE dst[k]] \o <<>>

\* for (int i = position_ - 1; i >= 0; i--) dst[i] = src[i];
\* Unit i of dst becomes byte i of src, for every i < n. When dst is src's own
\* store, iteration i writes bytes 2i and 2i+1 and the iterations after it read
\* only bytes below i, so going from the last unit down every read sees the
\* original byte: the loop's result is the same for both stores.
WidenLoop(src, dst, n) ==
  [k \in 1..Len(dst) |->
     IF k <= 2 * n
     THEN LET unit == src[(k + 1) \div 2]
          IN  IF k % 2 = 1 THEN unit % 256 ELSE unit \div 256
     ELSE dst[k]] \o <<>>

\* Faulty variant of ConvertToTwoByte: a store the widened content fills
\* exactly is kept, without room for the unit about to be stored.
ConvertToTwoByte_NoRoom(b) ==
  LET new_content_size == b.position_ * kUC16Size
      new_store == IF new_content_size > Len(b.backing_store_)
                   THEN NewStore(NewCapacity(b, new_content_size))
                   ELSE b.backing_store_
  IN  [is_one_byte_ |-> FALSE,
       position_ |-> new_content_size,
       backing_store_ |-> WidenLoop(b.backing_store_, new_store, b.position_)]

ConvertToTwoByte(b) ==
  LET new_content_size == b.position_ * kUC16Size
      new_store == IF new_content_size >= Len(b.backing_store_)
                   THEN NewStore(NewCapacity(b, new_content_size))
                   ELSE b.backing_store_
  IN  [is_one_byte_ |-> FALSE,
       position_ |-> new_content_size,
       backing_store_ |-> WidenLoop(b.backing_store_, new_store, b.position_)]

\* The two-byte tail of AddChar (lines 171-182).
AddTwoByte(b, code_unit) ==
  IF code_unit <= kMaxNonSurrogateCharCode
  THEN [b EXCEPT !.backing_store_ = WriteU16(@, b.position_, code_unit),
                 !.position_ = @ + kUC16Size]
  ELSE LET b1 == [b EXCEPT !.backing_store_ =
                       WriteU16(@, b.position_, LeadSurrogate(code_unit)),
                     !.position_ = @ + kUC16Size]
           b2 == IF b1.position_ >= Len(b1.backing_store_)
                 THEN ExpandBuffer(b1) ELSE b1
       IN  [b2 EXCEPT !.backing_store_ =
                  WriteU16(@, b2.position_, TrailSurrogate(code_unit)),
                !.position_ = @ + kUC16Size]

\* AddChar once the store has room for one more unit (lines 162-182).
AddCharInPlace(b, code_unit) ==
  IF b.is_one_byte_
  THEN IF code_unit <= kLatin1MaxChar
       THEN [b EXCEPT !.backing_store_[b.position_ + 1] = code_unit,
                      !.position_ = @ + kOneByteSize]
       ELSE AddTwoByte(ConvertToTwoByte(b), code_unit)
  ELSE AddTwoByte(b, code_unit)

AddChar(b, code_unit) ==
  AddCharInPlace(IF b.position_ >= Len(b.backing_store_) THEN ExpandBuffer(b)
                 ELSE b,
                 code_unit)

is_one_byte(b) == b.is_one_byte_

\* Faulty variant of is_contextual_keyword: the is_one_byte() test is missing.
is_contextual_keyword_AnyWidth(b, keyword) ==
  /\ Len(keyword) = b.position_
  /\ SubSeq(b.backing_store_, 1, b.position_) = keyword

\* is_contextual_keyword(keyword), the keyword given as its bytes: memcmp
\* over position_ bytes.
is_contextual_keyword(b, keyword) ==
  /\ is_one_byte(b)
  /\ Len(keyword) = b.position_
  /\ SubSeq(b.backing_store_, 1, b.position_) = keyword

length(b) == IF b.is_one_byte_ THEN b.position_ ELSE b.position_ \div 2

one_byte_literal(b) == [k \in 1..b.position_ |-> b.backing_store_[k]]

two_byte_literal(b) ==
  [k \in 1..(b.position_ \div 2) |-> ReadU16(b.backing_store_, k - 1)]

\* The logical characters of the buffer, through the view its mode selects.
Chars(b) == IF b.is_one_byte_ THEN one_byte_literal(b) ELSE two_byte_literal(b)

\* Faulty variant of ReduceLength: a buffer truncated to nothing goes back to
\* the one-byte representation.
ReduceLength_Narrowing(b, delta) ==
  LET p == b.position_
             - delta * (IF b.is_one_byte_ THEN kOneByteSize ELSE kUC16Size)
  IN  [b EXCEPT !.position_ = p, !.is_one_byte_ = (p = 0) \/ @]

\* Faulty variant of ReduceLength: delta counts bytes in both
\* representations.
ReduceLength_Bytes(b, delta) ==
  [b EXCEPT !.position_ = @ - delta * kOneByteSize]

ReduceLength(b, delta) ==
  [b EXCEPT !.position_ =
     @ - delta * (IF b.is_one_byte_ THEN kOneByteSize ELSE kUC16Size)]

Reset(b) == [b EXCEPT !.position_ = 0, !.is_one_byte_ = TRUE]

\* The null LiteralBuffer pointer.
nullptr == [null |-> TRUE]

\* The operation that took a buffer from `before` to `after` kept its store:
\* every new store is longer than the one it replaces.
StoreKept(before, after) ==
  Len(after.backing_store_) = Len(before.backing_store_)

\* Faulty variant of CopyFromShares: the store of `other` is taken over, not
\* cloned.
CopyFromShares_NoClone(b, other, shared) ==
  IF other = nullptr THEN shared
  ELSE IF other.position_ < Len(b.backing_store_) THEN shared ELSE TRUE

\* Whether b and `other` have one store between them after b.CopyFrom(other),
\* `shared` telling whether they had before: std::copy writes into the store
\* b has, Clone() gives b a store of its own.
CopyFromShares(b, other, shared) ==
  IF other = nullptr THEN shared
  ELSE IF other.position_ < Len(b.backing_store_) THEN shared ELSE FALSE

\* Faulty variant of CopyFrom: position_ is not taken over.
CopyFrom_KeepsPosition(b, other) ==
  IF other = nullptr THEN Reset(b)
  ELSE [is_one_byte_ |-> other.is_one_byte_,
        position_ |-> b.position_,
        backing_store_ |-> other.backing_store_]

CopyFrom(b, other) ==
  IF other = nullptr THEN Reset(b)
  ELSE IF other.position_ < Len(b.backing_store_)
       THEN [is_one_byte_ |-> other.is_one_byte_,
             position_ |-> other.position_,
             backing_store_ |->
               SubSeq(other.backing_store_, 1, other.position_)
                 \o SubSeq(b.backing_store_, other.position_ + 1,
                           Len(b.backing_store_))]
       ELSE [is_one_byte_ |-> other.is_one_byte_,
             position_ |-> other.position_,
             backing_store_ |-> other.backing_store_]

(***************************************************************************)
(* Utf16CharacterStream                                                    *)
(***************************************************************************)
kEndOfInput == -1

\* A stream over the code units `units`, all of them buffered.
NewStream(units) == [buffer |-> units, pos_ |-> 0, bookmark_ |-> 0]

\* Faulty variant of Advance(): at the end of the input pos_ stays.
Utf16Advance_StopsAtEnd(st) ==
  IF st.pos_ < Len(st.buffer)
  THEN [unit |-> st.buffer[st.pos_ + 1], stream |-> [st EXCEPT !.pos_ = @ + 1]]
  ELSE [unit |-> kEndOfInput, stream |-> st]

\* Advance(): the unit returned and the stream afterwards.
Utf16Advance(st) ==
  [unit |-> IF st.pos_ < Len(st.buffer) THEN st.buffer[st.pos_ + 1]
            ELSE kEndOfInput,
   stream |-> [st EXCEPT !.pos_ = @ + 1]]

pos(st) == st.pos_

\* The code units between buffer_cursor_ and buffer_end_; past the end of
\* the input the cursor stays at buffer_end_.
BufferedChars(st) == Max(Len(st.buffer) - st.pos_, 0)

\* SlowSeekForward(code_unit_count): skips to the end of the input, which
\* comes sooner, and returns the number of units skipped.
SlowSeekForward(st, code_unit_count) ==
  [count |-> BufferedChars(st),
   stream |-> [st EXCEPT !.pos_ = @ + BufferedChars(st)]]

\* Faulty variant of SeekForward: pos_ is set, not moved forward.
Utf16SeekForward_Absolute(st, code_unit_count) ==
  IF code_unit_count <= BufferedChars(st)
  THEN [count |-> code_unit_count,
        stream |-> [st EXCEPT !.pos_ = code_unit_count]]
  ELSE SlowSeekForward(st, code_unit_count)

\* SeekForward(code_unit_count): the count returned and the stream afterwards.
Utf16SeekForward(st, code_unit_count) ==
  IF code_unit_count <= BufferedChars(st)
  THEN [count |-> code_unit_count,
        stream |-> [st EXCEPT !.pos_ = @ + code_unit_count]]
  ELSE SlowSeekForward(st, code_unit_count)

\* PushBack(code_unit): un-consumes the unit most recently advanced over.
Utf16PushBack(st, code_unit) == [st EXCEPT !.pos_ = @ - 1]

\* SetBookmark() of a stream that can rewind here / ResetToBookmark().
Utf16SetBookmark(st) == [st EXCEPT !.bookmark_ = st.pos_]
Utf16ResetToBookmark(st) == [st EXCEPT !.pos_ = st.bookmark_]

(***************************************************************************)
(* DuplicateFinder                                                         *)
(***************************************************************************)
\* DuplicateFinder(UnicodeCache*): an empty backing store and an empty map.
\* A map entry holds its key, the address of an encoded key in the backing
\* store, the hash of the key and the value.
NewDuplicateFinder == [backing_store_ |-> <<>>, map_ |-> {}]

\* Vector<const uint8_t>::cast of a Vector<const uint16_t>: the bytes of the
\* units, the low byte first.
RECURSIVE BytesOf(_)
BytesOf(key16) ==
  IF key16 = <<>> THEN <<>>
  ELSE <<Head(key16) % 256, Head(key16) \div 256>> \o BytesOf(Tail(key16))

\* The heptets of n above the last one, the most significant first, each
\* with the bit set that says another heptet follows.
RECURSIVE MoreHeptets(_)
MoreHeptets(n) ==
  IF n = 0 THEN <<>> ELSE MoreHeptets(n \div 128) \o <<128 + (n % 128)>>

\* The length of a key and the bit saying whether the key is one-byte, in
\* heptets.
EncodeLength(n, one_byte) ==
  MoreHeptets((2 * n + (IF one_byte THEN 1 ELSE 0)) \div 128)
    \o <<(2 * n + (IF one_byte THEN 1 ELSE 0)) % 128>>

\* BackupKey(key, is_one_byte): the encoded length and the bytes of the key
\* are appended to the backing store; the address of the copy is returned.
BackupKey(d, key, one_byte) ==
  [d |-> [d EXCEPT !.backing_store_ =
                     @ \o EncodeLength(Len(key), one_byte) \o key],
   encoding |-> Len(d.backing_store_) + 1]

\* memcmp(s1, s2, length) == 0
SameBytes(store, s1, s2, n) ==
  \A i \in 0..(n - 1) : store[s1 + i] = store[s2 + i]

\* Faulty variant of Match: the length field is skipped, and the bytes of
\* the first key are compared.
RECURSIVE Match_BytesOnly(_, _, _, _)
Match_BytesOnly(store, s1, s2, field) ==
  IF store[s1] >= 128
  THEN Match_BytesOnly(store, s1 + 1, s2 + 1, field * 128 + (store[s1] % 128))
  ELSE SameBytes(store, s1 + 1, s2 + 1, (field * 128 + store[s1]) \div 2)

\* Match(first, second), the heptets read so far giving `field`: the
\* encoded lengths are the same heptet for heptet, and so are the bytes
\* that follow.
RECURSIVE Match(_, _, _, _)
Match(store, s1, s2, field) ==
  IF store[s1] # store[s2] THEN FALSE
  ELSE IF store[s1] >= 128
  THEN Match(store, s1 + 1, s2 + 1, field * 128 + (store[s1] % 128))
  ELSE SameBytes(store, s1 + 1, s2 + 1, (field * 128 + store[s1]) \div 2)

\* A content hash of a key and its representation. Keys of the same length
\* and the same sum of bytes have the same hash.
kHashRange == 4
RECURSIVE SumBytes(_)
SumBytes(key) == IF key = <<>> THEN 0 ELSE Head(key) + SumBytes(Tail(key))
Hash(key, one_byte) ==
  (SumBytes(key) + Len(key) + (IF one_byte THEN 1 ELSE 0)) % kHashRange

\* Faulty variant of Lookup: entries are told apart by their hash alone.
Lookup_HashOnly(d, encoding, hash) == {e \in d.map_ : e.hash = hash}

\* The entries of the map the lookup of `encoding` with `hash` finds.
Lookup(d, encoding, hash) ==
  {e \in d.map_ : e.hash = hash /\ Match(d.backing_store_, e.key, encoding, 0)}

\* What an add gives: the finder afterwards, the value returned, whether
\* an entry was found, the key of the entry used and the address the key
\* was backed up at.
Added(d, ret, found, entry, at) ==
  [d |-> d, ret |-> ret, found |-> found, entry |-> entry, at |-> at]

\* Faulty variant of Overwrite: the entry keeps the value it had.
Overwrite_Keeps(d, e, value, encoding) ==
  Added(d, e.value, TRUE, e.key, encoding)

\* The add finds the entry e: its value is overwritten and the previous
\* value is returned.
Overwrite(d, e, value, encoding) ==
  Added([d EXCEPT !.map_ = (@ \ {e}) \cup {[e EXCEPT !.value = value]}],
        e.value, TRUE, e.key, encoding)

\* The add finds no entry: one is inserted and its value is returned.
Insert(d, encoding, hash, value) ==
  Added([d EXCEPT !.map_ =
           @ \cup {[key |-> encoding, hash |-> hash, value |-> value]}],
        value, FALSE, encoding, encoding)

\* The end of AddSymbol(), the key backed up at `encoding`.
AddSymbolAt(d, encoding, hash, value) ==
  IF Lookup(d, encoding, hash) = {}
  THEN Insert(d, encoding, hash, value)
  ELSE Overwrite(d, CHOOSE e \in Lookup(d, encoding, hash) : TRUE, value,
                 encoding)

\* The middle of AddSymbol(): b is what BackupKey() gave.
AddSymbolBackedUp(b, hash, value) == AddSymbolAt(b.d, b.encoding, hash, value)

\* AddSymbol(key, is_one_byte, value)
AddSymbol(d, key, one_byte, value) ==
  AddSymbolBackedUp(BackupKey(d, key, one_byte), Hash(key, one_byte),
                    value)

AddOneByteSymbol(d, key, value) == AddSymbol(d, key, TRUE, value)
AddTwoByteSymbol(d, key16, value) == AddSymbol(d, BytesOf(key16), FALSE, value)

\* The period of a number literal.
kPeriod == 46

\* The digits of a literal before the period, and those after it.
RECURSIVE IntegerPart(_)
IntegerPart(key) ==
  IF key = <<>> \/ Head(key) = kPeriod THEN <<>>
  ELSE <<Head(key)>> \o IntegerPart(Tail(key))
FractionPart(key) ==
  SubSeq(key, Len(IntegerPart(key)) + 2, Len(key))

\* Digits without their trailing zeros.
RECURSIVE StripTrailingZeros(_)
StripTrailingZeros(digits) ==
  IF digits # <<>> /\ digits[Len(digits)] = 48
  THEN StripTrailingZeros(SubSeq(digits, 1, Len(digits) - 1))
  ELSE digits

\* The value of a run of decimal digits, and the digits of a value.
RECURSIVE DigitsValue(_)
DigitsValue(digits) ==
  IF digits = <<>> THEN 0
  ELSE 10 * DigitsValue(SubSeq(digits, 1, Len(digits) - 1))
         + (digits[Len(digits)] - 48)
RECURSIVE ValueDigits(_)
ValueDigits(n) ==
  IF n < 10 THEN <<48 + n>> ELSE ValueDigits(n \div 10) \o <<48 + (n % 10)>>

\* The number of a decimal literal, ToNumber(literal): its integer part,
\* and its fraction in units of 10^(-scale), the scale as small as the
\* value allows.
StringToDouble(key) ==
  [integer |-> DigitsValue(IntegerPart(key)),
   fraction |-> DigitsValue(StripTrailingZeros(FractionPart(key))),
   scale |-> Len(StripTrailingZeros(FractionPart(key)))]

\* The fraction digits of a number: `scale` digits, zeros in front.
RECURSIVE PadDigits(_, _)
PadDigits(digits, n) ==
  IF Len(digits) >= n THEN digits ELSE PadDigits(<<48>> \o digits, n)

\* ToString of a number: the decimal string of its value.
DoubleToCString(num) ==
  ValueDigits(num.integer)
    \o (IF num.scale = 0 THEN <<>>
        ELSE <<kPeriod>> \o PadDigits(ValueDigits(num.fraction), num.scale))

\* IsNumberCanonical(key): the integer part has no leading zero, unless it
\* is the single zero, and a fraction is not empty and ends in no zero.
IsNumberCanonical(key) ==
  /\ IntegerPart(key) # <<>>
  /\ Len(IntegerPart(key)) > 1 => Head(key) # 48
  /\ Len(IntegerPart(key)) < Len(key) =>
       /\ FractionPart(key) # <<>>
       /\ key[Len(key)] # 48

\* Faulty variant of AddNumber: the literal is added as it is written.
AddNumber_Verbatim(d, key, value) == AddOneByteSymbol(d, key, value)

\* AddNumber(key, value): the literal, converted if it is not canonical to
\* the string ToString(ToNumber(literal)) gives, is added with
\* AddOneByteSymbol.
AddNumber(d, key, value) ==
  AddOneByteSymbol(
    d, IF IsNumberCanonical(key) THEN key ELSE DoubleToCString(StringToDouble(key)), value)


(***************************************************************************)
(* Scanner: state and low-level support                                    *)
(***************************************************************************)
NULL == "NULL"

\* A stream call, its argument and what it returned.
StCall(name, arg, ret) == [op |-> name, arg |-> arg, ret |-> ret]

\* Faulty variant of kNoBookmark: a value a set bookmark can hold.
kNoBookmark_Zero == kEndOfInput + 1
kNoBookmark == -1
\* Faulty variant of kBookmarkWasApplied: the same value as kNoBookmark.
kBookmarkWasApplied_Unset == kNoBookmark
kBookmarkWasApplied == -2

\* Location(b, e), Location() and Location::invalid()
Location(b, e) == [beg_pos |-> b, end_pos |-> e]
DefaultLocation == Location(0, 0)
InvalidLocation == Location(0 - 1, 0 - 1)
IsValid(loc) == loc.beg_pos >= 0 /\ loc.end_pos >= loc.beg_pos

IsLeadSurrogate(c) == c >= 55296 /\ c <= 56319
IsTrailSurrogate(c) == c >= 56320 /\ c <= 57343
CombineSurrogatePair(lead, trail) ==
  65536 + (lead - 55296) * 1024 + (trail - 56320)

\* Character classes of the modelled alphabet.
IsWhiteSpace(c) == c = 32
IsLineTerminator(c) == c = 10
IsIdentifierStart(c) == c = 97 \/ c = 98 \/ c = 256
IsIdentifierPart(c) == IsIdentifierStart(c)
IsQuote(c) == c = 34

\* A TokenDesc; literal_chars and raw_literal_chars name a buffer of the
\* Scanner or are NULL.
TokenDesc(token, location, literal_chars, raw_literal_chars) ==
  [token |-> token, location |-> location,
   literal_chars |-> literal_chars, raw_literal_chars |-> raw_literal_chars]

has_error(s) == s.scanner_error_ # "kNone"
error(s) == s.scanner_error_
error_location(s) == s.scanner_error_location_
current_token(s) == s.current_.token
location(s) == s.current_.location
peek(s) == s.next_.token
peek_location(s) == s.next_.location

\* source_pos(), with kCharacterLookaheadBufferSize = 1
kCharacterLookaheadBufferSize == 1
source_pos(s) == pos(s.source_) - kCharacterLookaheadBufferSize

\* Faulty variant of ReportScannerError: the has_error() test is missing.
ReportScannerError_Overwrite(s, loc, err) ==
  [s EXCEPT !.scanner_error_ = err, !.scanner_error_location_ = loc]

\* ReportScannerError(const Location&, MessageTemplate::Template)
ReportScannerError(s, loc, err) ==
  IF has_error(s) THEN s
  ELSE [s EXCEPT !.scanner_error_ = err, !.scanner_error_location_ = loc]

\* ReportScannerError(int pos, MessageTemplate::Template)
ReportScannerErrorAt(s, p, err) ==
  IF has_error(s) THEN s
  ELSE [s EXCEPT !.scanner_error_ = err,
                 !.scanner_error_location_ = Location(p, p + 1)]

\* Faulty variant of StartLiteral: the buffer after the one the token ahead
\* references is selected, whatever the current token references.
StartLiteral_AfterNext(s) ==
  LET free_buffer ==
        IF s.next_.literal_chars = "literal_buffer0_" THEN "literal_buffer1_"
        ELSE IF s.next_.literal_chars = "literal_buffer1_"
             THEN "literal_buffer2_"
             ELSE "literal_buffer0_"
  IN  [s EXCEPT ![free_buffer] = Reset(@), !.next_.literal_chars = free_buffer]

StartLiteral(s) ==
  LET free_buffer ==
        IF s.current_.literal_chars = "literal_buffer0_" THEN "literal_buffer1_"
        ELSE IF s.current_.literal_chars = "literal_buffer1_"
             THEN "literal_buffer2_"
             ELSE "literal_buffer0_"
  IN  [s EXCEPT ![free_buffer] = Reset(@), !.next_.literal_chars = free_buffer]

StartRawLiteral(s) ==
  LET free_buffer ==
        IF s.current_.raw_literal_chars = "raw_literal_buffer0_"
        THEN "raw_literal_buffer1_"
        ELSE IF s.current_.raw_literal_chars = "raw_literal_buffer1_"
             THEN "raw_literal_buffer2_"
             ELSE "raw_literal_buffer0_"
  IN  [s EXCEPT ![free_buffer] = Reset(@),
                !.next_.raw_literal_chars = free_buffer]

AddLiteralChar(s, c) == [s EXCEPT ![s.next_.literal_chars] = AddChar(@, c)]

AddRawLiteralChar(s, c) ==
  [s EXCEPT ![s.next_.raw_literal_chars] = AddChar(@, c)]

\* Faulty variant of DropLiteral: the raw literal stays.
DropLiteral_KeepsRaw(s) == [s EXCEPT !.next_.literal_chars = NULL]

DropLiteral(s) ==
  [s EXCEPT !.next_.literal_chars = NULL, !.next_.raw_literal_chars = NULL]

\* ~LiteralScope()
LiteralScopeEnd(s, complete_) == IF ~complete_ THEN DropLiteral(s) ELSE s

\* Faulty variant of HandleLeadSurrogate: the trail surrogate is consumed
\* and c0_ stays the lead surrogate.
HandleLeadSurrogate_KeepsLead(s) ==
  IF IsLeadSurrogate(s.c0_)
  THEN LET r == Utf16Advance(s.source_)
           c1 == r.unit
       IN  IF ~IsTrailSurrogate(c1)
           THEN [s EXCEPT !.source_ = Utf16PushBack(r.stream, c1)]
           ELSE [s EXCEPT !.source_ = r.stream]
  ELSE s

\* Faulty variant of HandleLeadSurrogate: the unit fetched after a lone lead
\* surrogate is not pushed back.
HandleLeadSurrogate_NoPushBack(s) ==
  IF IsLeadSurrogate(s.c0_)
  THEN LET r == Utf16Advance(s.source_)
           c1 == r.unit
       IN  IF ~IsTrailSurrogate(c1)
           THEN [s EXCEPT !.source_ = r.stream]
           ELSE [s EXCEPT !.source_ = r.stream,
                          !.c0_ = CombineSurrogatePair(s.c0_, c1)]
  ELSE s

HandleLeadSurrogate(s) ==
  IF IsLeadSurrogate(s.c0_)
  THEN LET r == Utf16Advance(s.source_)
           c1 == r.unit
       IN  IF ~IsTrailSurrogate(c1)
           THEN [s EXCEPT !.source_ = Utf16PushBack(r.stream, c1)]
           ELSE [s EXCEPT !.source_ = r.stream,
                          !.c0_ = CombineSurrogatePair(s.c0_, c1)]
  ELSE s

\* c0_ = source_->Advance(); if (check_surrogate) HandleLeadSurrogate();
AdvanceSource(s, check_surrogate) ==
  LET r == Utf16Advance(s.source_)
  IN  IF check_surrogate
      THEN HandleLeadSurrogate([s EXCEPT !.source_ = r.stream, !.c0_ = r.unit])
      ELSE [s EXCEPT !.source_ = r.stream, !.c0_ = r.unit]

\* Advance<capture_raw, check_surrogate>()
AdvanceT(s, capture_raw, check_surrogate) ==
  AdvanceSource(IF capture_raw THEN AddRawLiteralChar(s, s.c0_) ELSE s,
                check_surrogate)

Advance(s) == AdvanceT(s, FALSE, TRUE)

AddLiteralCharAdvance(s) == Advance(AddLiteralChar(s, s.c0_))

\* Init()
Init(s) ==
  LET s1 == Advance(s)
  IN  [s1 EXCEPT !.current_.literal_chars = NULL,
                 !.current_.raw_literal_chars = NULL,
                 !.next_next_.token = "UNINITIALIZED",
                 !.found_html_comment_ = FALSE,
                 !.scanner_error_ = "kNone"]

\* Faulty variant of Select: the character of the token is not consumed.
Select_NoAdvance(s, tok) == [s |-> s, token |-> tok]

\* Select(Token::Value tok): the scanner afterwards and the token.
Select(s, tok) == [s |-> Advance(s), token |-> tok]

\* PushBack(uc32 ch)
PushBack(s, ch) ==
  LET st == IF ch > kMaxNonSurrogateCharCode
            THEN Utf16PushBack(Utf16PushBack(s.source_, TrailSurrogate(s.c0_)),
                               LeadSurrogate(s.c0_))
            ELSE Utf16PushBack(s.source_, s.c0_)
  IN  [s EXCEPT !.source_ = st, !.c0_ = ch]

\* The stream calls HandleLeadSurrogate() makes, c1 being the unit the
\* stream gives next.
HandleLeadSurrogateCalls(s, c1) ==
  IF IsLeadSurrogate(s.c0_)
  THEN <<StCall("Advance", 0, c1)>>
         \o (IF ~IsTrailSurrogate(c1) THEN <<StCall("PushBack", c1, 0)>>
             ELSE <<>>)
  ELSE <<>>

\* The stream calls Advance() makes, r being what source_->Advance() gives.
AdvanceCallsOf(s, r) ==
  <<StCall("Advance", 0, r.unit)>>
    \o HandleLeadSurrogateCalls([s EXCEPT !.source_ = r.stream, !.c0_ = r.unit],
                                Utf16Advance(r.stream).unit)

AdvanceCalls(s) == AdvanceCallsOf(s, Utf16Advance(s.source_))

\* The stream calls PushBack(ch) makes.
PushBackCalls(s, ch) ==
  IF ch > kMaxNonSurrogateCharCode
  THEN <<StCall("PushBack", TrailSurrogate(s.c0_), 0),
         StCall("PushBack", LeadSurrogate(s.c0_), 0)>>
  ELSE <<StCall("PushBack", s.c0_, 0)>>

(***************************************************************************)
(* Scanner: construction, scanning and the token interface                 *)
(***************************************************************************)
\* Values the token of current_ may hold before the first Next() sets it.
GarbageTokens == {"UNINITIALIZED", "ILLEGAL"}

\* Scanner(UnicodeCache*). The members the constructor leaves unset and no
\* operation reads before Initialize() or Scan() writes them (the literal
\* handles of the descriptors, the line-terminator flags) get a fixed value;
\* the token of current_, which current_token() reads, is `garbage`.
NewScanner(garbage) ==
  [literal_buffer0_ |-> NewLiteralBuffer,
   literal_buffer1_ |-> NewLiteralBuffer,
   literal_buffer2_ |-> NewLiteralBuffer,
   source_url_ |-> NewLiteralBuffer,
   source_mapping_url_ |-> NewLiteralBuffer,
   raw_literal_buffer0_ |-> NewLiteralBuffer,
   raw_literal_buffer1_ |-> NewLiteralBuffer,
   raw_literal_buffer2_ |-> NewLiteralBuffer,
   current_ |-> TokenDesc(garbage, DefaultLocation, NULL, NULL),
   next_ |-> TokenDesc("UNINITIALIZED", DefaultLocation, NULL, NULL),
   next_next_ |-> TokenDesc("UNINITIALIZED", DefaultLocation, NULL, NULL),
   bookmark_c0_ |-> kNoBookmark,
   bookmark_current_ |->
     TokenDesc("UNINITIALIZED", DefaultLocation, "bookmark_current_literal_",
               "bookmark_current_raw_literal_"),
   bookmark_next_ |->
     TokenDesc("UNINITIALIZED", DefaultLocation, "bookmark_next_literal_",
               "bookmark_next_raw_literal_"),
   bookmark_current_literal_ |-> NewLiteralBuffer,
   bookmark_current_raw_literal_ |-> NewLiteralBuffer,
   bookmark_next_literal_ |-> NewLiteralBuffer,
   bookmark_next_raw_literal_ |-> NewLiteralBuffer,
   source_ |-> NewStream(<<>>),
   octal_pos_ |-> InvalidLocation,
   c0_ |-> kEndOfInput,
   has_line_terminator_before_next_ |-> FALSE,
   has_multiline_comment_before_next_ |-> FALSE,
   found_html_comment_ |-> FALSE,
   scanner_error_ |-> "kNone",
   scanner_error_location_ |-> DefaultLocation]

\* while (IsIdentifierPart(c0_)) AddLiteralCharAdvance();
RECURSIVE ScanIdentifierSuffix(_)
ScanIdentifierSuffix(s) ==
  IF s.c0_ >= 0 /\ IsIdentifierPart(s.c0_)
  THEN ScanIdentifierSuffix(AddLiteralCharAdvance(s))
  ELSE s

\* ScanIdentifierOrKeyword(): a maximal identifier run, recorded in a
\* LiteralScope that is completed.
ScanIdentifierOrKeyword(s) ==
  [s |-> LiteralScopeEnd(ScanIdentifierSuffix(StartLiteral(s)), TRUE),
   token |-> "IDENTIFIER"]

\* The characters of a string up to the closing quote, a line terminator or
\* the end of input: c = c0_; Advance(); AddLiteralChar(c);
RECURSIVE ScanStringChars(_, _)
ScanStringChars(s, quote) ==
  IF s.c0_ # quote /\ s.c0_ >= 0 /\ ~IsLineTerminator(s.c0_)
  THEN ScanStringChars(AddLiteralChar(Advance(s), s.c0_), quote)
  ELSE s

\* The end of ScanString(), the characters scanned: an unterminated string
\* records the error, drops the literal (the LiteralScope ends without
\* Complete()) and yields ILLEGAL.
ScanStringEnd(s, quote) ==
  IF s.c0_ # quote
  THEN [s |-> LiteralScopeEnd(
                ReportScannerError(
                  s, Location(s.next_.location.beg_pos, source_pos(s)),
                  "kUnterminatedString"),
                FALSE),
        token |-> "ILLEGAL"]
  ELSE [s |-> Advance(LiteralScopeEnd(s, TRUE)), token |-> "STRING"]

\* ScanString(): c0_ is the opening quote.
ScanString(s) ==
  ScanStringEnd(
    ScanStringChars(StartLiteral(AdvanceT(s, FALSE, FALSE)), s.c0_), s.c0_)

\* Faulty variant of ReduceRawLiteralLength: the raw literal keeps the
\* characters that end the span.
ReduceRawLiteralLength_Keeps(s, delta) == s

\* ReduceRawLiteralLength(int delta)
ReduceRawLiteralLength(s, delta) ==
  [s EXCEPT ![s.next_.raw_literal_chars] = ReduceLength(@, delta)]

IsDecimalDigit(c) == c >= 48 /\ c <= 57
IsOctalDigit(c) == c >= 48 /\ c <= 55

\* ScanDecimalDigits(): while (IsDecimalDigit(c0_)) AddLiteralCharAdvance();
RECURSIVE ScanDecimalDigits(_)
ScanDecimalDigits(s) ==
  IF IsDecimalDigit(s.c0_) THEN ScanDecimalDigits(AddLiteralCharAdvance(s))
  ELSE s

\* Faulty variant of ScanImplicitOctal: the location of the octal literal is
\* not recorded.
RECURSIVE ScanImplicitOctal_NoPosition(_, _)
ScanImplicitOctal_NoPosition(s, start_pos) ==
  IF s.c0_ = 56 \/ s.c0_ = 57 THEN ScanDecimalDigits(s)
  ELSE IF ~IsOctalDigit(s.c0_) THEN s
  ELSE ScanImplicitOctal_NoPosition(AddLiteralCharAdvance(s), start_pos)

\* The digits of a number after a leading zero and an octal digit: an 8 or
\* a 9 makes the literal a decimal one; the end of the octal digits records
\* the location of the legacy octal literal in octal_pos_.
RECURSIVE ScanImplicitOctal(_, _)
ScanImplicitOctal(s, start_pos) ==
  IF s.c0_ = 56 \/ s.c0_ = 57 THEN ScanDecimalDigits(s)
  ELSE IF ~IsOctalDigit(s.c0_)
  THEN [s EXCEPT !.octal_pos_ = Location(start_pos, source_pos(s))]
  ELSE ScanImplicitOctal(AddLiteralCharAdvance(s), start_pos)

\* The digits after a leading zero.
ScanAfterZero(s, start_pos) ==
  IF IsOctalDigit(s.c0_) THEN ScanImplicitOctal(s, start_pos)
  ELSE ScanDecimalDigits(s)

\* The digits of a number that starts at start_pos.
ScanNumberDigits(s, start_pos) ==
  IF s.c0_ = 48 THEN ScanAfterZero(AddLiteralCharAdvance(s), start_pos)
  ELSE ScanDecimalDigits(s)

\* ScanNumber(false) for integer literals, decimal or legacy octal: c0_ is
\* the first digit.
ScanNumber(s) ==
  [s |-> LiteralScopeEnd(ScanNumberDigits(StartLiteral(s), source_pos(s)),
                         TRUE),
   token |-> "NUMBER"]

\* ScanEscape<capture_raw, true>() for the escapes of the modelled alphabet:
\* c = c0_; Advance<capture_raw>(); 'n' is the line feed, any other
\* character stands for itself; AddLiteralChar(c).
ScanEscape(s, capture_raw) ==
  AddLiteralChar(AdvanceT(s, capture_raw, TRUE),
                 IF s.c0_ = 110 THEN 10 ELSE s.c0_)

RECURSIVE ScanTemplateChars(_)

\* A '$' of a template span has been consumed: with '{' it ends the span,
\* the two characters taken off the raw literal; else it is a character of
\* the span.
ScanTemplateDollar(s) ==
  IF s.c0_ = 123
  THEN [s |-> ReduceRawLiteralLength(AdvanceT(s, TRUE, TRUE), 2),
        token |-> "TEMPLATE_SPAN"]
  ELSE ScanTemplateChars(AddLiteralChar(s, 36))

\* A backslash of a template span has been consumed.
ScanTemplateBackslash(s) ==
  IF s.c0_ < 0 THEN [s |-> s, token |-> "ILLEGAL"]
  ELSE ScanTemplateChars(ScanEscape(s, TRUE))

\* The characters of a template span, each consumed with Advance<true>():
\* up to the closing backtick, which is taken off the raw literal, up to
\* "${", or up to the end of the input.
ScanTemplateChars(s) ==
  IF s.c0_ < 0 THEN [s |-> s, token |-> "ILLEGAL"]
  ELSE IF s.c0_ = 96
  THEN [s |-> ReduceRawLiteralLength(AdvanceT(s, TRUE, TRUE), 1),
        token |-> "TEMPLATE_TAIL"]
  ELSE IF s.c0_ = 36 THEN ScanTemplateDollar(AdvanceT(s, TRUE, TRUE))
  ELSE IF s.c0_ = 92 THEN ScanTemplateBackslash(AdvanceT(s, TRUE, TRUE))
  ELSE ScanTemplateChars(AddLiteralChar(AdvanceT(s, TRUE, TRUE), s.c0_))

\* The end of ScanTemplateSpan(), r being what the characters gave: an
\* unterminated template records the error, drops the literals and yields
\* ILLEGAL; else the literals are complete, and next_.location.end_pos and
\* next_.token are set.
ScanTemplateSpanEnd(r) ==
  IF r.token = "ILLEGAL"
  THEN [s |-> [LiteralScopeEnd(
                 ReportScannerError(
                   r.s, Location(r.s.next_.location.beg_pos, source_pos(r.s)),
                   "kUnterminatedTemplate"),
                 FALSE)
                 EXCEPT !.next_.location.end_pos = source_pos(r.s),
                        !.next_.token = "ILLEGAL"],
        token |-> "ILLEGAL"]
  ELSE [s |-> [LiteralScopeEnd(r.s, TRUE)
                 EXCEPT !.next_.location.end_pos = source_pos(r.s),
                        !.next_.token = r.token],
        token |-> r.token]

\* ScanTemplateSpan(): the cooked literal and the raw literal are started.
ScanTemplateSpan(s) ==
  ScanTemplateSpanEnd(ScanTemplateChars(StartRawLiteral(StartLiteral(s))))

\* ScanTemplateStart(): c0_ is the opening backtick.
ScanTemplateStart(s) ==
  ScanTemplateSpan(Advance([s EXCEPT !.next_.location.beg_pos = source_pos(s)]))

\* ScanTemplateContinuation(): next_ is the RBRACE that ends a substitution.
ScanTemplateContinuation(s) ==
  ScanTemplateSpan([s EXCEPT !.next_.location.beg_pos = source_pos(s) - 1])

\* The characters of a multi-line comment, `seen` telling whether a line
\* terminator was among them: ch = c0_; Advance(); up to "*/" or the end of
\* the input.
RECURSIVE SkipMultiLineCommentChars(_, _)
SkipMultiLineCommentChars(s, seen) ==
  IF s.c0_ < 0
  THEN [s |-> ReportScannerError(
                s, Location(s.next_.location.beg_pos, source_pos(s)),
                "kUnterminatedComment"),
        token |-> "ILLEGAL"]
  ELSE IF s.c0_ = 42 /\ Advance(s).c0_ = 47
  THEN [s |-> [Advance(Advance(s))
                 EXCEPT !.has_multiline_comment_before_next_ = (@ \/ seen)],
        token |-> "WHITESPACE"]
  ELSE SkipMultiLineCommentChars(Advance(s), seen \/ IsLineTerminator(s.c0_))

\* SkipMultiLineComment(): c0_ is the '*' of "/*".
SkipMultiLineComment(s) == SkipMultiLineCommentChars(Advance(s), FALSE)

\* The token that starts with '/', the '/' consumed: a multi-line comment
\* or DIV.
ScanSlash(s) ==
  IF s.c0_ = 42 THEN SkipMultiLineComment(s) ELSE [s |-> s, token |-> "DIV"]

\* The body of a regular expression: up to the closing '/', a line
\* terminator or the end of the input.
RECURSIVE ScanRegExpBody(_)
ScanRegExpBody(s) ==
  IF s.c0_ = 47 \/ s.c0_ < 0 \/ IsLineTerminator(s.c0_) THEN s
  ELSE ScanRegExpBody(AddLiteralCharAdvance(s))

\* The end of ScanRegExpPattern(), the body scanned: an unterminated
\* pattern records the error, drops the literal and makes the token
\* ILLEGAL; else the closing '/' is consumed.
ScanRegExpPatternEnd(s) ==
  IF s.c0_ # 47
  THEN [s |-> [LiteralScopeEnd(
                 ReportScannerError(
                   s, Location(s.next_.location.beg_pos, source_pos(s)),
                   "kUnterminatedRegExp"),
                 FALSE)
                 EXCEPT !.next_.location.end_pos = source_pos(s),
                        !.next_.token = "ILLEGAL"],
        ret |-> "false"]
  ELSE [s |-> [Advance(LiteralScopeEnd(s, TRUE))
                 EXCEPT !.next_.location.end_pos = source_pos(s) + 1],
        ret |-> "true"]

\* ScanRegExpPattern(seen_equal): next_ is the DIV (or, with seen_equal, the
\* ASSIGN_DIV) the pattern starts with.
ScanRegExpPattern(s, seen_equal) ==
  ScanRegExpPatternEnd(
    ScanRegExpBody(
      IF seen_equal
      THEN AddLiteralChar(
             StartLiteral(
               [s EXCEPT !.next_.location.beg_pos = source_pos(s) - 2]), 61)
      ELSE StartLiteral(
             [s EXCEPT !.next_.location.beg_pos = source_pos(s) - 1])))

\* Faulty variant of clear_octal_position: the octal position is kept.
clear_octal_position_Keeps(s) == s

\* clear_octal_position()
clear_octal_position(s) == [s EXCEPT !.octal_pos_ = InvalidLocation]
octal_position(s) == s.octal_pos_

HasAnyLineTerminatorBeforeNext(s) ==
  s.has_line_terminator_before_next_ \/ s.has_multiline_comment_before_next_

\* One round of Scan()'s loop: the token starting at c0_, WHITESPACE meaning
\* that the loop goes round again.
ScanToken(s) ==
  IF s.c0_ < 0 THEN [s |-> s, token |-> "EOS"]
  ELSE IF IsWhiteSpace(s.c0_) THEN [s |-> Advance(s), token |-> "WHITESPACE"]
  ELSE IF IsLineTerminator(s.c0_)
       THEN [s |-> [Advance(s) EXCEPT !.has_line_terminator_before_next_ = TRUE],
             token |-> "WHITESPACE"]
  ELSE IF IsQuote(s.c0_) THEN ScanString(s)
  ELSE IF s.c0_ = 40 THEN Select(s, "LPAREN")
  ELSE IF s.c0_ = 42 THEN Select(s, "MUL")
  ELSE IF s.c0_ = 123 THEN Select(s, "LBRACE")
  ELSE IF s.c0_ = 125 THEN Select(s, "RBRACE")
  ELSE IF s.c0_ = 47 THEN ScanSlash(Advance(s))
  ELSE IF s.c0_ = 96 THEN ScanTemplateStart(s)
  ELSE IF IsDecimalDigit(s.c0_) THEN ScanNumber(s)
  ELSE IF IsIdentifierStart(s.c0_) THEN ScanIdentifierOrKeyword(s)
  ELSE Select(s, "ILLEGAL")

RECURSIVE ScanLoop(_)

\* The end of a round, r being what ScanToken gave: while (token ==
\* Token::WHITESPACE), then next_.location.end_pos and next_.token are set.
ScanLoopEnd(r) ==
  IF r.token = "WHITESPACE" THEN ScanLoop(r.s)
  ELSE [r.s EXCEPT !.next_.location.end_pos = source_pos(r.s),
                   !.next_.token = r.token]

ScanLoop(s) ==
  ScanLoopEnd(ScanToken([s EXCEPT !.next_.location.beg_pos = source_pos(s)]))

\* Scan(): scans one token into next_.
Scan(s) ==
  ScanLoop([s EXCEPT !.next_.literal_chars = NULL,
                     !.next_.raw_literal_chars = NULL])

\* Initialize(Utf16CharacterStream* source)
Initialize(s, source) ==
  Scan([Init([s EXCEPT !.source_ = source])
          EXCEPT !.has_line_terminator_before_next_ = TRUE])

\* return current_.token;
ReturnCurrent(s) == [s |-> s, ret |-> s.current_.token]

\* Next(): the scanner afterwards and the token returned.
NextToken(s) ==
  ReturnCurrent(
    IF s.next_next_.token # "UNINITIALIZED"
    THEN [s EXCEPT !.current_ = s.next_,
                   !.next_ = s.next_next_,
                   !.next_next_.token = "UNINITIALIZED"]
    ELSE Scan([s EXCEPT !.current_ = s.next_,
                        !.has_line_terminator_before_next_ = FALSE,
                        !.has_multiline_comment_before_next_ = FALSE]))

\* The end of PeekAhead(), Next() called: ret = next_.token; next_next_ =
\* next_; next_ = current_; current_ = prev; return ret;
PeekAheadEnd(s, prev) ==
  [s |-> [s EXCEPT !.next_next_ = s.next_,
                   !.next_ = s.current_,
                   !.current_ = prev],
   ret |-> s.next_.token]

\* return next_.token;
ReturnNext(s) == [s |-> s, ret |-> s.next_.token]

\* Faulty variant of PeekAhead(): the token scanned ahead is left in next_.
PeekAheadToken_Consuming(s) == ReturnNext(NextToken(s).s)

\* PeekAhead(): the scanner afterwards and the token returned.
PeekAheadToken(s) ==
  IF s.next_next_.token # "UNINITIALIZED"
  THEN [s |-> s, ret |-> s.next_next_.token]
  ELSE PeekAheadEnd(NextToken(s).s, s.current_)

\* The buffer a literal handle points to.
Deref(s, p) == IF p = NULL THEN nullptr ELSE s[p]

\* CopyTokenDesc(TokenDesc* to, TokenDesc* from); to and from name members.
CopyTokenDesc(s, to, from) ==
  [s EXCEPT ![to].token = s[from].token,
            ![to].location = s[from].location,
            ![s[to].literal_chars] = CopyFrom(@, Deref(s, s[from].literal_chars)),
            ![s[to].raw_literal_chars] =
              CopyFrom(@, Deref(s, s[from].raw_literal_chars))]

BookmarkHasBeenSet(s) == s.bookmark_c0_ >= 0
BookmarkHasBeenReset(s) == s.bookmark_c0_ = kBookmarkWasApplied

\* SetBookmark(), stream_ok being the answer of source_->SetBookmark(). A set
\* bookmark holds c0_ >= 0 in bookmark_c0_ and has no copy of next_next_, so
\* none is set at the end of input or while a second lookahead is pending.
SetBookmark(s, stream_ok) ==
  IF /\ s.c0_ # kNoBookmark
     /\ s.bookmark_c0_ = kNoBookmark
     /\ s.next_next_.token = "UNINITIALIZED"
     /\ stream_ok
  THEN LET s1 == [s EXCEPT !.source_ = Utf16SetBookmark(@),
                           !.bookmark_c0_ = s.c0_]
       IN  [s |-> CopyTokenDesc(CopyTokenDesc(s1, "bookmark_current_", "current_"),
                                "bookmark_next_", "next_"),
            ret |-> TRUE]
  ELSE [s |-> s, ret |-> FALSE]

\* ResetToBookmark()
\* current_ = next_;
AssignCurrent(s) == [s EXCEPT !.current_ = s.next_]

\* StartLiteral(); StartRawLiteral(); CopyTokenDesc(&next_, from);
RestoreNext(s, from) ==
  CopyTokenDesc(StartRawLiteral(StartLiteral(s)), "next_", from)

ResetToBookmark(s) ==
  [RestoreNext(
     AssignCurrent(
       RestoreNext([s EXCEPT !.source_ = Utf16ResetToBookmark(@),
                             !.c0_ = s.bookmark_c0_],
                   "bookmark_current_")),
     "bookmark_next_")
     EXCEPT !.bookmark_c0_ = kBookmarkWasApplied]

\* DropBookmark()
DropBookmark(s) == [s EXCEPT !.bookmark_c0_ = kNoBookmark]

\* The control state bookmark_c0_ encodes, read through the two queries.
ControlState(s) ==
  IF BookmarkHasBeenSet(s) /\ BookmarkHasBeenReset(s) THEN "both"
  ELSE IF BookmarkHasBeenSet(s) THEN "set"
  ELSE IF BookmarkHasBeenReset(s) THEN "applied"
  ELSE IF s.bookmark_c0_ = kNoBookmark THEN "unset"
  ELSE "none"

(***************************************************************************)
(* Spec: one Scanner over a source text, driven through Initialize(),      *)
(* Next(), PeekAhead() and the bookmark operations of BookmarkScope.       *)
(***************************************************************************)
MaxSrcLen == 3
MaxSince == 2
MaxOps == 5

\* Code units of the source texts: two identifier characters, '(' and a
\* space.
Alphabet == {97, 98, 40, 32}

Sources == UNION {[1..n -> Alphabet] : n \in 0..MaxSrcLen}

\* What a caller can read of a token: kind, location and the characters of
\* its literal and raw literal (nothing for a NULL handle).
Lit(s, p) == IF p = NULL THEN [one_byte |-> TRUE, chars |-> <<>>]
             ELSE [one_byte |-> is_one_byte(s[p]), chars |-> Chars(s[p])]

TokenOf(s, d) ==
  [token |-> d.token, location |-> d.location,
   literal |-> Lit(s, d.literal_chars), raw |-> Lit(s, d.raw_literal_chars)]

\* The tokens the following Next() calls return, up to the first EOS.
RECURSIVE FutureN(_, _)

\* The token r, the result of Next(), delivered and the tokens after it.
FutureFrom(r, n) ==
  <<TokenOf(r.s, r.s.current_)>>
    \o (IF r.ret = "EOS" THEN <<>> ELSE FutureN(r.s, n - 1))

FutureN(s, n) == IF n = 0 THEN <<>> ELSE FutureFrom(NextToken(s), n)

Future(s) == FutureN(s, MaxSrcLen + 3)

Observables(s) ==
  [current |-> TokenOf(s, s.current_), next |-> TokenOf(s, s.next_),
   future |-> Future(s)]

\* The record of an operation: its name, what it returned (a token, "true" or
\* "false", for DropBookmark() the control state it found, for
\* ReportScannerError the error reported), the answer of the stream to
\* SetBookmark() and the location reported.
Op(name, ret, ok, loc) == [name |-> name, ret |-> ret, ok |-> ok, loc |-> loc]

NoOp == Op("new", "none", TRUE, DefaultLocation)
NoSnap == [current |-> "none"]

\* The history of a stream no call has been made to.
NoStLog ==
  [call |-> StCall("new", 0, 0), advs |-> <<>>, plain |-> TRUE,
   marked |-> FALSE, n |-> 0]

\* The stream part of a state in which no stream under test exists.
StIdle == stream = NewStream(<<>>) /\ st_log = NoStLog

\* The history of the low-level calls before any was made: the stream calls
\* of the Scanner in order, the character c0_ held before the last Advance(),
\* whether c0_ was put back by PushBack(), and the LiteralScope: whether one is open or complete, the buffer
\* StartLiteral() selected for it and the code units added within it.
NoLow ==
  [trace |-> <<>>, prev |-> kEndOfInput, pushed |-> FALSE, scope |-> "none",
   buf |-> NULL, chars |-> <<>>]

\* The arguments and the result of a LiteralBuffer operation.
LbArg(c, delta, keyword, ret) ==
  [c |-> c, delta |-> delta, keyword |-> keyword, ret |-> ret]
NoLbArg == LbArg(0, 0, <<>>, FALSE)

\* The DuplicateFinder part of a state in which no finder is under test.
DupUnused == dup = NewDuplicateFinder /\ dup_log = <<>>
DupIdle == DupUnused /\ MoIdle

\* The Scanner part of a state in which no Scanner operation has run.
ScIdle ==
  /\ scanner = NewScanner("UNINITIALIZED")
  /\ op = NoOp
  /\ pending = <<>>
  /\ snap = NoSnap
  /\ since = 0
  /\ nops = 0
  /\ low = NoLow

\* The LiteralBuffer part of a state of the Scanner specifications.
LbIdle ==
  /\ lb = NewLiteralBuffer
  /\ lb_other = NewLiteralBuffer
  /\ lb_fill = 0
  /\ lb_hist = <<>>
  /\ lb_op = "new"
  /\ lb_adds = TRUE
  /\ lb_n = 0
  /\ lb_arg = NoLbArg
  /\ lb_shared = FALSE

ScInit ==
  /\ LbIdle
  /\ StIdle
  /\ DupIdle
  /\ low = NoLow
  /\ \E g \in GarbageTokens : scanner = NewScanner(g)
  /\ op = NoOp
  /\ pending = <<>>
  /\ snap = NoSnap
  /\ since = 0
  /\ nops = 0

Initialized == op.name # "new"

\* An operation after Initialize() may run.
Ready == Initialized /\ nops < MaxOps

DoInitialize(src) ==
  /\ ~Initialized
  /\ scanner' = Initialize(scanner, NewStream(src))
  /\ op' = Op("Initialize", "none", TRUE, DefaultLocation)
  /\ UNCHANGED <<pending, snap, since, nops>>
  /\ UNCHANGED <<lbvars, stvars, low, dupvars, mo>>

Bump(n) == IF BookmarkHasBeenSet(scanner) THEN Min(n + 1, MaxSince) ELSE n

\* The operation `name` has given r: the scanner afterwards and what it
\* returned.
Performed(name, r) ==
  /\ scanner' = r.s
  /\ op' = Op(name, r.ret, TRUE, DefaultLocation)

DoNext ==
  /\ Ready
  /\ nops' = nops + 1
  /\ Performed("Next", NextToken(scanner))
  /\ pending' = IF pending = <<>> THEN <<>> ELSE Tail(pending)
  /\ since' = Bump(since)
  /\ UNCHANGED snap
  /\ UNCHANGED <<lbvars, stvars, low, dupvars, mo>>

DoPeekAhead ==
  /\ Ready
  /\ nops' = nops + 1
  /\ Performed("PeekAhead", PeekAheadToken(scanner))
  /\ pending' = <<peek(scanner), op'.ret>>
  /\ since' = Bump(since)
  /\ UNCHANGED snap
  /\ UNCHANGED <<lbvars, stvars, low, dupvars, mo>>

\* SetBookmark() has given r, the stream having answered ok.
PerformedSet(r, ok) ==
  /\ scanner' = r.s
  /\ op' = Op("SetBookmark", IF r.ret THEN "true" ELSE "false", ok,
              DefaultLocation)
  /\ snap' = IF r.ret THEN Observables(scanner) ELSE snap
  /\ since' = IF r.ret THEN 0 ELSE since

\* BookmarkScope::Set(); ok is what the stream's own SetBookmark() answers.
DoSetBookmark(ok) ==
  /\ Ready
  /\ nops' = nops + 1
  /\ PerformedSet(SetBookmark(scanner, ok), ok)
  /\ UNCHANGED pending
  /\ UNCHANGED <<lbvars, stvars, low, dupvars, mo>>

\* BookmarkScope::Reset(); its caller has a set bookmark.
DoResetToBookmark ==
  /\ Ready
  /\ nops' = nops + 1
  /\ BookmarkHasBeenSet(scanner)
  /\ scanner' = ResetToBookmark(scanner)
  /\ op' = Op("ResetToBookmark", "none", TRUE, DefaultLocation)
  /\ pending' = <<>>
  /\ UNCHANGED <<snap, since>>
  /\ UNCHANGED <<lbvars, stvars, low, dupvars, mo>>

\* ~BookmarkScope()
DoDropBookmark ==
  /\ Ready
  /\ nops' = nops + 1
  /\ scanner' = DropBookmark(scanner)
  /\ op' = Op("DropBookmark", ControlState(scanner), TRUE, DefaultLocation)
  /\ snap' = NoSnap
  /\ since' = 0
  /\ UNCHANGED pending
  /\ UNCHANGED <<lbvars, stvars, low, dupvars, mo>>

ScNext ==
  \/ \E src \in Sources : DoInitialize(src)
  \/ DoNext
  \/ DoPeekAhead
  \/ \E ok \in BOOLEAN : DoSetBookmark(ok)
  \/ DoResetToBookmark
  \/ DoDropBookmark

Spec == ScInit /\ [][ScNext]_vars

(***************************************************************************)
(* SpecErr: the Scanner over source texts with unterminated strings, with  *)
(* lexical faults reported through both ReportScannerError overloads and   *)
(* the Scanner re-initialised on another source text.                      *)
(***************************************************************************)
MaxErrLen == 2
MaxErrOps == 4

\* A double quote, a line terminator and an identifier character.
ErrAlphabet == {34, 10, 97}

ErrSources == UNION {[1..n -> ErrAlphabet] : n \in 0..MaxErrLen}

ErrKinds == {"kMalformedRegExp", "kInvalidUnicodeEscapeSequence"}
ErrLocations == {Location(0, 1), Location(1, 3)}
ErrPositions == {0, 2}

\* An operation of SpecErr after Initialize() may run.
ErrReady == Initialized /\ nops < MaxErrOps

DoInitializeErr(src) ==
  /\ ~Initialized
  /\ scanner' = Initialize(scanner, NewStream(src))
  /\ op' = Op("Initialize", "none", TRUE, DefaultLocation)
  /\ UNCHANGED <<pending, snap, since, nops>>
  /\ UNCHANGED <<lbvars, stvars, low, dupvars, mo>>

\* Initialize() on a Scanner that has scanned before, with a new stream over
\* the same text.
DoReInitialize ==
  /\ ErrReady
  /\ nops' = nops + 1
  /\ scanner' = Initialize(scanner, NewStream(scanner.source_.buffer))
  /\ op' = Op("Initialize", "none", TRUE, DefaultLocation)
  /\ pending' = <<>>
  /\ UNCHANGED <<snap, since>>
  /\ UNCHANGED <<lbvars, stvars, low, dupvars, mo>>

DoReportScannerError(loc, err) ==
  /\ ErrReady
  /\ nops' = nops + 1
  /\ scanner' = ReportScannerError(scanner, loc, err)
  /\ op' = Op("ReportScannerError", err, TRUE, loc)
  /\ UNCHANGED <<pending, snap, since>>
  /\ UNCHANGED <<lbvars, stvars, low, dupvars, mo>>

DoReportScannerErrorAt(p, err) ==
  /\ ErrReady
  /\ nops' = nops + 1
  /\ scanner' = ReportScannerErrorAt(scanner, p, err)
  /\ op' = Op("ReportScannerError", err, TRUE, Location(p, p + 1))
  /\ UNCHANGED <<pending, snap, since>>
  /\ UNCHANGED <<lbvars, stvars, low, dupvars, mo>>

ErrNext ==
  \/ \E src \in ErrSources : DoInitializeErr(src)
  \/ DoReInitialize
  \/ ErrReady /\ DoNext
  \/ ErrReady /\ DoPeekAhead
  \/ \E loc \in ErrLocations, err \in ErrKinds : DoReportScannerError(loc, err)
  \/ \E p \in ErrPositions, err \in ErrKinds : DoReportScannerErrorAt(p, err)
  \/ ErrReady /\ \E ok \in BOOLEAN : DoSetBookmark(ok)
  \/ ErrReady /\ DoResetToBookmark
  \/ ErrReady /\ DoDropBookmark

SpecErr == ScInit /\ [][ErrNext]_vars

(***************************************************************************)
(* SpecLB: one LiteralBuffer driven by its public operations.              *)
(***************************************************************************)
MaxLbOps == 4
MaxDelta == 2

\* Code points appended in SpecLB: ASCII, Latin-1, BMP beyond Latin-1 and
\* one supplementary code point.
LbChars == {97, 255, 256, 66561}

\* The UTF-16 code units of a code point.
Units(c) == IF c <= kMaxNonSurrogateCharCode THEN <<c>>
            ELSE <<LeadSurrogate(c), TrailSurrogate(c)>>

\* Lengths of the ASCII run appended before the explored operations: the
\* buffer is empty, about to widen in place (below half the first store),
\* about to widen into a new store (half the first store), or full.
Prefills == {0, 3, 32, 64}

LbInit ==
  /\ lb = NewLiteralBuffer
  /\ lb_fill \in Prefills
  /\ \E c \in {97, 256} :
       lb_other \in {NewLiteralBuffer, AddChar(AddChar(NewLiteralBuffer, c), 97)}
  /\ lb_hist = <<>>
  /\ lb_op = "new"
  /\ lb_adds = TRUE
  /\ lb_n = 0
  /\ lb_arg = NoLbArg
  /\ lb_shared = FALSE
  /\ ScIdle
  /\ StIdle
  /\ DupIdle

\* The ASCII run: AddChar('a') until lb holds lb_fill characters.
LbFill ==
  /\ lb_n = 0
  /\ Len(lb_hist) < lb_fill
  /\ lb' = AddChar(lb, 97)
  /\ lb_hist' = Append(lb_hist, 97)
  /\ lb_op' = "AddChar"
  /\ lb_arg' = LbArg(97, 0, <<>>, FALSE)
  /\ UNCHANGED <<lb_other, lb_fill, lb_adds, lb_n, lb_shared>>
  /\ UNCHANGED <<scvars, stvars, low, dupvars, mo>>

\* A run ends with the is_contextual_keyword query: the query changes
\* nothing, so the runs that go on after it are the runs without it.
LbReady ==
  /\ lb_n < MaxLbOps
  /\ lb_n > 0 \/ Len(lb_hist) = lb_fill
  /\ lb_op # "is_contextual_keyword"

\* The buffer `alias` after an operation has taken the buffer it shares its
\* store with from `before` to `after`: bytes written into the store are
\* written for both; a store replaced by a new one is the writer's alone.
WriteThrough(alias, before, after, shared) ==
  IF shared /\ StoreKept(before, after)
  THEN [alias EXCEPT !.backing_store_ = after.backing_store_]
  ELSE alias

\* An operation has taken lb to b: the other buffer and the sharing.
LbWritten(b) ==
  /\ lb' = b
  /\ lb_other' = WriteThrough(lb_other, lb, b, lb_shared)
  /\ lb_shared' = (lb_shared /\ StoreKept(lb, b))

\* An operation has taken lb_other to b.
LbOtherWritten(b) ==
  /\ lb_other' = b
  /\ lb' = WriteThrough(lb, lb_other, b, lb_shared)
  /\ lb_shared' = (lb_shared /\ StoreKept(lb_other, b))

LbAddChar(c) ==
  /\ LbReady
  /\ LbWritten(AddChar(lb, c))
  /\ lb_hist' = lb_hist \o Units(c)
  /\ lb_op' = "AddChar"
  /\ lb_arg' = LbArg(c, 0, <<>>, FALSE)
  /\ lb_n' = lb_n + 1
  /\ UNCHANGED <<lb_fill, lb_adds>>
  /\ UNCHANGED <<scvars, stvars, low, dupvars, mo>>

LbReduceLength(delta) ==
  /\ LbReady
  /\ delta <= length(lb)
  /\ LbWritten(ReduceLength(lb, delta))
  /\ lb_hist' = SubSeq(lb_hist, 1, Len(lb_hist) - delta)
  /\ lb_op' = "ReduceLength"
  /\ lb_arg' = LbArg(0, delta, <<>>, FALSE)
  /\ lb_adds' = FALSE
  /\ lb_n' = lb_n + 1
  /\ UNCHANGED <<lb_fill>>
  /\ UNCHANGED <<scvars, stvars, low, dupvars, mo>>

LbReset ==
  /\ LbReady
  /\ LbWritten(Reset(lb))
  /\ lb_hist' = <<>>
  /\ lb_op' = "Reset"
  /\ lb_arg' = NoLbArg
  /\ lb_adds' = TRUE
  /\ lb_n' = lb_n + 1
  /\ UNCHANGED <<lb_fill>>
  /\ UNCHANGED <<scvars, stvars, low, dupvars, mo>>

LbCopyFrom ==
  /\ LbReady
  /\ lb' = CopyFrom(lb, lb_other)
  /\ lb_shared' = CopyFromShares(lb, lb_other, lb_shared)
  /\ lb_hist' = Chars(lb_other)
  /\ lb_op' = "CopyFrom"
  /\ lb_arg' = NoLbArg
  /\ lb_adds' = FALSE
  /\ lb_n' = lb_n + 1
  /\ UNCHANGED <<lb_other, lb_fill>>
  /\ UNCHANGED <<scvars, stvars, low, dupvars, mo>>

LbCopyFromNull ==
  /\ LbReady
  /\ LbWritten(CopyFrom(lb, nullptr))
  /\ lb_hist' = <<>>
  /\ lb_op' = "CopyFromNull"
  /\ lb_arg' = NoLbArg
  /\ lb_adds' = FALSE
  /\ lb_n' = lb_n + 1
  /\ UNCHANGED <<lb_fill>>
  /\ UNCHANGED <<scvars, stvars, low, dupvars, mo>>

\* Operations on the buffer lb was copied from, after the copy.
OtherOps == {"other.AddChar", "other.ReduceLength", "other.Reset"}

LbOtherReady == LbReady /\ lb_op \in {"CopyFrom"} \cup OtherOps

LbOtherAddChar(c) ==
  /\ LbOtherReady
  /\ LbOtherWritten(AddChar(lb_other, c))
  /\ lb_op' = "other.AddChar"
  /\ lb_arg' = LbArg(c, 0, <<>>, FALSE)
  /\ lb_n' = lb_n + 1
  /\ UNCHANGED <<lb_hist, lb_fill, lb_adds>>
  /\ UNCHANGED <<scvars, stvars, low, dupvars, mo>>

LbOtherReduceLength(delta) ==
  /\ LbOtherReady
  /\ delta <= length(lb_other)
  /\ LbOtherWritten(ReduceLength(lb_other, delta))
  /\ lb_op' = "other.ReduceLength"
  /\ lb_arg' = LbArg(0, delta, <<>>, FALSE)
  /\ lb_n' = lb_n + 1
  /\ UNCHANGED <<lb_hist, lb_fill, lb_adds>>
  /\ UNCHANGED <<scvars, stvars, low, dupvars, mo>>

LbOtherReset ==
  /\ LbOtherReady
  /\ LbOtherWritten(Reset(lb_other))
  /\ lb_op' = "other.Reset"
  /\ lb_arg' = NoLbArg
  /\ lb_n' = lb_n + 1
  /\ UNCHANGED <<lb_hist, lb_fill, lb_adds>>
  /\ UNCHANGED <<scvars, stvars, low, dupvars, mo>>

\* Texts is_contextual_keyword is asked about, as bytes.
Keywords == {<<97>>, <<97, 97>>, <<97, 0>>, <<97, 255>>, <<97, 97, 97>>}

LbIsContextualKeyword(keyword) ==
  /\ LbReady
  /\ lb_op' = "is_contextual_keyword"
  /\ lb_arg' = LbArg(0, 0, keyword, is_contextual_keyword(lb, keyword))
  /\ UNCHANGED <<lb, lb_other, lb_shared, lb_hist, lb_fill, lb_adds, lb_n>>
  /\ UNCHANGED <<scvars, stvars, low, dupvars, mo>>

LbNext ==
  \/ LbFill
  \/ \E c \in LbChars : LbAddChar(c)
  \/ \E d \in 0..MaxDelta : LbReduceLength(d)
  \/ LbReset
  \/ LbCopyFrom
  \/ LbCopyFromNull
  \/ \E c \in LbChars : LbOtherAddChar(c)
  \/ \E d \in 0..MaxDelta : LbOtherReduceLength(d)
  \/ LbOtherReset
  \/ \E keyword \in Keywords : LbIsContextualKeyword(keyword)

SpecLB == LbInit /\ [][LbNext]_vars

(***************************************************************************)
(* SpecStream: one Utf16CharacterStream driven by its public operations.   *)
(***************************************************************************)
MaxStLen == 2
MaxStOps == 4
MaxSeek == 2

StSources ==
  UNION {[1..n -> {97, 98}] : n \in 0..MaxStLen}

StInit ==
  /\ \E units \in StSources : stream = NewStream(units \o <<>>)
  /\ st_log = NoStLog
  /\ LbIdle
  /\ ScIdle
  /\ DupIdle

StReady == st_log.n < MaxStOps

\* The call `call` has been made: the history afterwards.
StLogged(call, advs, plain, marked) ==
  st_log' = [call |-> call, advs |-> advs, plain |-> plain,
             marked |-> marked, n |-> st_log.n + 1]

\* Advance() has given r.
StAdvanced(r) ==
  /\ stream' = r.stream
  /\ StLogged(StCall("Advance", 0, r.unit), Append(st_log.advs, r.unit),
              st_log.plain, st_log.marked)

StAdvance ==
  /\ StReady
  /\ StAdvanced(Utf16Advance(stream))
  /\ UNCHANGED <<lbvars, scvars, low, dupvars, mo>>

\* SeekForward() has given r.
StSought(r, code_unit_count) ==
  /\ stream' = r.stream
  /\ StLogged(StCall("SeekForward", code_unit_count, r.count), st_log.advs,
              FALSE, st_log.marked)

\* SeekForward is not called right after PushBack.
StSeekForward(code_unit_count) ==
  /\ StReady
  /\ st_log.call.op # "PushBack"
  /\ StSought(Utf16SeekForward(stream, code_unit_count), code_unit_count)
  /\ UNCHANGED <<lbvars, scvars, low, dupvars, mo>>

\* PushBack is called with the unit the most recent call, an Advance(),
\* returned.
StPushBack ==
  /\ StReady
  /\ st_log.call.op = "Advance"
  /\ stream' = Utf16PushBack(stream, st_log.call.ret)
  /\ StLogged(StCall("PushBack", st_log.call.ret, 0), st_log.advs, FALSE,
              st_log.marked)
  /\ UNCHANGED <<lbvars, scvars, low, dupvars, mo>>

StSetBookmark ==
  /\ StReady
  /\ stream' = Utf16SetBookmark(stream)
  /\ StLogged(StCall("SetBookmark", 0, 1), st_log.advs, FALSE, TRUE)
  /\ UNCHANGED <<lbvars, scvars, low, dupvars, mo>>

StResetToBookmark ==
  /\ StReady
  /\ st_log.marked
  /\ stream' = Utf16ResetToBookmark(stream)
  /\ StLogged(StCall("ResetToBookmark", 0, 0), st_log.advs, FALSE, TRUE)
  /\ UNCHANGED <<lbvars, scvars, low, dupvars, mo>>

StNext ==
  \/ StAdvance
  \/ \E k \in 0..MaxSeek : StSeekForward(k)
  \/ StPushBack
  \/ StSetBookmark
  \/ StResetToBookmark

SpecStream == StInit /\ [][StNext]_vars

(***************************************************************************)
(* SpecLow: the Scanner's low-level support, driven as the scanning        *)
(* routines drive it: Init(), Advance(), PushBack() to undo the Advance()  *)
(* just made, and a LiteralScope with AddLiteralCharAdvance() inside it.   *)
(***************************************************************************)
MaxLowLen == 3
MaxLowOps == 4

\* 'a', the first and the last lead surrogate, the first and the last trail
\* surrogate.
LowAlphabet == {97, 55296, 56319, 56320, 57343}

LowSources == UNION {[1..n -> LowAlphabet] : n \in 0..MaxLowLen}

LowReady == Initialized /\ nops < MaxLowOps

\* A low-level operation has given the scanner s.
LowDone(name, ret, s) ==
  /\ scanner' = s
  /\ op' = Op(name, ret, TRUE, DefaultLocation)
  /\ UNCHANGED <<pending, snap, since>>
  /\ UNCHANGED <<lbvars, stvars, dupvars, mo>>

\* Init() on a scanner whose source_ is a new stream over src.
DoLowInit(src) ==
  /\ ~Initialized
  /\ LowDone("Init", "none",
             Init([scanner EXCEPT !.source_ = NewStream(src \o <<>>)]))
  /\ low' = [low EXCEPT !.trace =
               AdvanceCalls([scanner EXCEPT !.source_ = NewStream(src \o <<>>)])]
  /\ UNCHANGED nops

DoLowAdvance ==
  /\ LowReady
  /\ LowDone("Advance", "none", Advance(scanner))
  /\ low' = [low EXCEPT !.trace = @ \o AdvanceCalls(scanner),
                        !.prev = scanner.c0_,
                        !.pushed = FALSE]
  /\ nops' = nops + 1

\* PushBack(ch) undoes the Advance() just made: ch is the character c0_ held
\* before it.
DoLowPushBack ==
  /\ LowReady
  /\ op.name = "Advance"
  /\ LowDone("PushBack", "none", PushBack(scanner, low.prev))
  /\ low' = [low EXCEPT !.trace = @ \o PushBackCalls(scanner, low.prev),
                        !.pushed = TRUE]
  /\ nops' = nops + 1

\* LiteralScope(Scanner*), for a template literal followed by
\* StartRawLiteral().
DoLowStartScope(raw) ==
  /\ LowReady
  /\ low.scope = "none"
  /\ LowDone("LiteralScope", "none",
             IF raw THEN StartRawLiteral(StartLiteral(scanner))
             ELSE StartLiteral(scanner))
  /\ low' = [low EXCEPT !.scope = "open",
                        !.buf = StartLiteral(scanner).next_.literal_chars,
                        !.chars = <<>>]
  /\ nops' = nops + 1

DoLowAddLiteralCharAdvance ==
  /\ LowReady
  /\ low.scope = "open"
  /\ scanner.c0_ >= 0
  /\ LowDone("AddLiteralCharAdvance", "none", AddLiteralCharAdvance(scanner))
  /\ low' = [low EXCEPT !.trace = @ \o AdvanceCalls(scanner),
                        !.prev = scanner.c0_,
                        !.pushed = FALSE,
                        !.chars = @ \o Units(scanner.c0_)]
  /\ nops' = nops + 1

\* LiteralScope::Complete()
DoLowComplete ==
  /\ LowReady
  /\ low.scope = "open"
  /\ LowDone("Complete", "none", scanner)
  /\ low' = [low EXCEPT !.scope = "complete"]
  /\ nops' = nops + 1

\* ~LiteralScope()
DoLowEndScope ==
  /\ LowReady
  /\ low.scope \in {"open", "complete"}
  /\ LowDone("~LiteralScope", low.scope,
             LiteralScopeEnd(scanner, low.scope = "complete"))
  /\ low' = [low EXCEPT !.scope = "none"]
  /\ nops' = nops + 1

LowNext ==
  \/ \E src \in LowSources : DoLowInit(src)
  \/ DoLowAdvance
  \/ DoLowPushBack
  \/ \E raw \in BOOLEAN : DoLowStartScope(raw)
  \/ DoLowAddLiteralCharAdvance
  \/ DoLowComplete
  \/ DoLowEndScope

\* A Scanner as constructed, Initialize() not called.
LowInit == ScIdle /\ LbIdle /\ StIdle /\ DupIdle

SpecLow == LowInit /\ [][LowNext]_vars

(***************************************************************************)
(* SpecDup: one DuplicateFinder driven by its add operations and by        *)
(* Scanner::FindSymbol.                                                    *)
(***************************************************************************)
MaxDupOps == 3

\* The values passed with a key.
DupValues == {1, 2}

\* A key of n equal units.
LongKey(n, c) == [k \in 1..n |-> c]

\* One-byte keys: "x", 'x' and a zero byte, "1", and a key of 64 bytes,
\* whose encoded length takes two heptets.
OneByteKeys == {<<120>>, <<120, 0>>, <<49>>, LongKey(64, 120)}

\* Two-byte keys: the unit 'x', whose bytes are 'x' and a zero byte.
TwoByteKeys == {<<120>>}

\* Number literals: "1", "1.0", "1.50".
NumberKeys == {<<49>>, <<49, 46, 48>>, <<49, 46, 53, 48>>}

\* Sources whose first token is an identifier: a one-byte literal and a
\* two-byte one.
LiteralSources == {<<97>>, <<256>>}

\* The literal accessors of the current token.
is_literal_one_byte(s) == is_one_byte(Deref(s, s.current_.literal_chars))
literal_one_byte_string(s) ==
  one_byte_literal(Deref(s, s.current_.literal_chars))
literal_two_byte_string(s) ==
  two_byte_literal(Deref(s, s.current_.literal_chars))

\* FindSymbol(finder, value): the literal of the current token is added
\* through the view of its representation.
FindSymbol(s, finder, value) ==
  IF is_literal_one_byte(s)
  THEN AddOneByteSymbol(finder, literal_one_byte_string(s), value)
  ELSE AddTwoByteSymbol(finder, literal_two_byte_string(s), value)

\* A Scanner whose current token is the first token of src.
ScannedFirst(src) ==
  NextToken(Initialize(NewScanner("UNINITIALIZED"), NewStream(src))).s

\* The bytes of the literal FindSymbol() adds.
LiteralBytes(s) ==
  IF is_literal_one_byte(s) THEN literal_one_byte_string(s)
  ELSE BytesOf(literal_two_byte_string(s))

DupInit == DupIdle /\ ScIdle /\ LbIdle /\ StIdle

DupReady == Len(dup_log) < MaxDupOps

\* The add `name` of `arg`, whose bytes are key, has given r.
DupDone(name, arg, key, one_byte, value, r) ==
  /\ dup' = r.d
  /\ dup_log' = Append(dup_log,
                       [op |-> name, arg |-> arg, key |-> key,
                        is_one_byte |-> one_byte, value |-> value,
                        ret |-> r.ret, found |-> r.found, entry |-> r.entry,
                        at |-> r.at])
  /\ UNCHANGED <<lbvars, scvars, stvars, low, mo>>

DoAddOneByteSymbol(key, value) ==
  /\ DupReady
  /\ DupDone("AddOneByteSymbol", key, key, TRUE, value,
             AddOneByteSymbol(dup, key, value))

DoAddTwoByteSymbol(key16, value) ==
  /\ DupReady
  /\ DupDone("AddTwoByteSymbol", key16, BytesOf(key16), FALSE, value,
             AddTwoByteSymbol(dup, key16, value))

DoAddNumber(key, value) ==
  /\ DupReady
  /\ DupDone("AddNumber", key, key, TRUE, value, AddNumber(dup, key, value))

DoFindSymbol(src, value) ==
  /\ DupReady
  /\ DupDone("FindSymbol", src, LiteralBytes(ScannedFirst(src)),
             is_literal_one_byte(ScannedFirst(src)), value,
             FindSymbol(ScannedFirst(src), dup, value))

DupNext ==
  \/ \E key \in OneByteKeys, value \in DupValues :
       DoAddOneByteSymbol(key, value)
  \/ \E key16 \in TwoByteKeys, value \in DupValues :
       DoAddTwoByteSymbol(key16, value)
  \/ \E key \in NumberKeys, value \in DupValues : DoAddNumber(key, value)
  \/ \E src \in LiteralSources, value \in DupValues : DoFindSymbol(src, value)

SpecDup == DupInit /\ [][DupNext]_vars

(***************************************************************************)
(* SpecTok: the Scanner over sources with strings, templates, multi-line   *)
(* comments, regular expressions and line terminators.                     *)
(***************************************************************************)
MaxTokLen == 3
MaxTokOps == 4

\* '/', '*', the line feed, 'a', the double quote and the backtick.
TokAlphabet == {47, 42, 10, 97, 34, 96}

\* "a/*\n*/a", "a/**/a" and "/* a".
TokExamples ==
  {<<97, 47, 42, 10, 42, 47, 97>>, <<97, 47, 42, 42, 47, 97>>,
   <<47, 42, 32, 97>>}

TokSources == UNION {[1..n -> TokAlphabet] : n \in 0..MaxTokLen} \cup TokExamples

\* A Scanner as constructed, Initialize() not called.
TokInit == ScIdle /\ LbIdle /\ StIdle /\ DupIdle

\* The operation `name` has given r: the scanner afterwards and what it
\* returned.
TokDone(name, r) ==
  /\ scanner' = r.s
  /\ op' = Op(name, r.ret, TRUE, location(r.s))
  /\ nops' = nops + 1
  /\ UNCHANGED <<pending, snap, since>>
  /\ UNCHANGED <<lbvars, stvars, low, dupvars, mo>>

\* Initialize(source) of a specification of tokens.
TokInitialized(src) ==
  /\ ~Initialized
  /\ scanner' = Initialize(scanner, NewStream(src))
  /\ op' = Op("Initialize", "none", TRUE, DefaultLocation)
  /\ UNCHANGED <<pending, snap, since, nops>>
  /\ UNCHANGED <<lbvars, stvars, low, dupvars, mo>>

TokReady == Initialized /\ nops < MaxTokOps

DoTokInitialize(src) == TokInitialized(src)

DoTokNext == TokReady /\ TokDone("Next", NextToken(scanner))

DoTokPeekAhead == TokReady /\ TokDone("PeekAhead", PeekAheadToken(scanner))

\* The parser asks for a regular expression when the token ahead is a DIV
\* just scanned and no second token is held.
DoScanRegExpPattern ==
  /\ TokReady
  /\ peek(scanner) = "DIV"
  /\ scanner.next_.literal_chars = NULL
  /\ scanner.next_next_.token = "UNINITIALIZED"
  /\ TokDone("ScanRegExpPattern", ScanRegExpPattern(scanner, FALSE))

TokNext ==
  \/ \E src \in TokSources : DoTokInitialize(src)
  \/ DoTokNext
  \/ DoTokPeekAhead
  \/ DoScanRegExpPattern

SpecTok == TokInit /\ [][TokNext]_vars

(***************************************************************************)
(* SpecTpl: the Scanner over sources with template literals, the parser    *)
(* asking for the continuation of a template at a closing brace.           *)
(***************************************************************************)
MaxTplLen == 3
MaxTplOps == 5

\* The backtick, '$', '{', '}', the backslash and 'a'.
TplAlphabet == {96, 36, 123, 125, 92, 97}

\* "`a${1}b`", "`\n`", a template of one supplementary character, and one
\* of a lead surrogate without its trail.
TplExamples ==
  {<<96, 97, 36, 123, 49, 125, 98, 96>>, <<96, 92, 110, 96>>,
   <<96, 55296, 56321, 96>>, <<96, 97, 55296, 97, 96>>}

TplSources == UNION {[1..n -> TplAlphabet] : n \in 0..MaxTplLen} \cup TplExamples

TplReady == Initialized /\ nops < MaxTplOps

DoTplInitialize(src) == TokInitialized(src)

DoTplNext == TplReady /\ TokDone("Next", NextToken(scanner))

\* What ScanTemplateContinuation() gives: the scanner afterwards and the
\* token returned.
TemplateContinuation(s) ==
  [s |-> ScanTemplateContinuation(s).s, ret |-> ScanTemplateContinuation(s).token]

\* The parser asks for the rest of a template when the token ahead is the
\* RBRACE that ends a substitution.
DoScanTemplateContinuation ==
  /\ TplReady
  /\ peek(scanner) = "RBRACE"
  /\ TokDone("ScanTemplateContinuation", TemplateContinuation(scanner))

TplNext ==
  \/ \E src \in TplSources : DoTplInitialize(src)
  \/ DoTplNext
  \/ DoScanTemplateContinuation

SpecTpl == TokInit /\ [][TplNext]_vars

(***************************************************************************)
(* SpecOct: the Scanner over sources of number literals, the parser        *)
(* clearing the octal position.                                            *)
(***************************************************************************)
MaxOctLen == 3
MaxOctOps == 4

\* '0', '1', '8' and the space.
OctAlphabet == {48, 49, 56, 32}

\* "012" and "012 1 017".
OctExamples == {<<48, 49, 50>>, <<48, 49, 50, 32, 49, 32, 48, 49, 55>>}

OctSources == UNION {[1..n -> OctAlphabet] : n \in 0..MaxOctLen} \cup OctExamples

\* The value of a run of digits in a radix.
RECURSIVE RadixValue(_, _)
RadixValue(digits, radix) ==
  IF digits = <<>> THEN 0
  ELSE radix * RadixValue(SubSeq(digits, 1, Len(digits) - 1), radix)
         + (digits[Len(digits)] - 48)

\* The number a literal of digits stands for: a leading zero followed by
\* octal digits only makes it octal.
NumberOf(digits) ==
  IF Len(digits) > 1 /\ digits[1] = 48
     /\ \A k \in 1..Len(digits) : IsOctalDigit(digits[k])
  THEN RadixValue(digits, 8)
  ELSE RadixValue(digits, 10)

\* DoubleValue(): the number of the literal of the current token.
DoubleValue(s) == NumberOf(literal_one_byte_string(s))

OctReady == Initialized /\ nops < MaxOctOps

DoOctInitialize(src) == TokInitialized(src)

DoOctNext == OctReady /\ TokDone("Next", NextToken(scanner))

DoOctPeekAhead == OctReady /\ TokDone("PeekAhead", PeekAheadToken(scanner))

\* clear_octal_position(), called when an octal position is recorded.
DoClearOctalPosition ==
  /\ OctReady
  /\ IsValid(octal_position(scanner))
  /\ TokDone("clear_octal_position",
             [s |-> clear_octal_position(scanner), ret |-> "none"])

OctNext ==
  \/ \E src \in OctSources : DoOctInitialize(src)
  \/ DoOctNext
  \/ DoOctPeekAhead
  \/ DoClearOctalPosition

SpecOct == TokInit /\ [][OctNext]_vars

(***************************************************************************)
(* SpecLbEdge: the LiteralBuffer of SpecLB, the explored operations        *)
(* starting at the edges of its first store.                               *)
(***************************************************************************)

\* Lengths of the ASCII run appended before the explored operations: the
\* buffer is empty; widened in place, one more unit leaves room for one
\* unit, or fills the store; one character below full.
EdgePrefills == {0, 30, 31, 63}

LbEdgeInit ==
  /\ lb = NewLiteralBuffer
  /\ lb_fill \in EdgePrefills
  /\ \E c \in {97, 256} :
       lb_other \in {NewLiteralBuffer, AddChar(AddChar(NewLiteralBuffer, c), 97)}
  /\ lb_hist = <<>>
  /\ lb_op = "new"
  /\ lb_adds = TRUE
  /\ lb_n = 0
  /\ lb_arg = NoLbArg
  /\ lb_shared = FALSE
  /\ ScIdle
  /\ StIdle
  /\ DupIdle

SpecLbEdge == LbEdgeInit /\ [][LbNext]_vars

(***************************************************************************)
(* SpecSel: the literal buffers of the Scanner, driven as the scanning     *)
(* routines drive them: Next() makes the token ahead the current one, a    *)
(* LiteralScope starts a literal (and a raw literal), characters are added *)
(* and a literal that is not kept is dropped.                              *)
(***************************************************************************)
MaxSelOps == 7
MaxSelLen == 1

\* 'a' and a character that needs two bytes.
SelChars == {97, 256}

SelReady == nops < MaxSelOps

\* A step on the literal buffers has given the scanner s.
SelDone(name, s) ==
  /\ SelReady
  /\ scanner' = s
  /\ op' = Op(name, "none", TRUE, DefaultLocation)
  /\ nops' = nops + 1
  /\ UNCHANGED <<pending, snap, since>>
  /\ UNCHANGED <<lbvars, stvars, low, dupvars, mo>>

\* Next(): current_ = next_;
DoSelAssignCurrent == SelDone("current_ = next_", AssignCurrent(scanner))

DoSelStartLiteral == SelDone("StartLiteral", StartLiteral(scanner))

DoSelStartRawLiteral == SelDone("StartRawLiteral", StartRawLiteral(scanner))

DoSelAddLiteralChar(c) ==
  /\ scanner.next_.literal_chars # NULL
  /\ length(scanner[scanner.next_.literal_chars]) < MaxSelLen
  /\ SelDone("AddLiteralChar", AddLiteralChar(scanner, c))

DoSelAddRawLiteralChar(c) ==
  /\ scanner.next_.raw_literal_chars # NULL
  /\ length(scanner[scanner.next_.raw_literal_chars]) < MaxSelLen
  /\ SelDone("AddRawLiteralChar", AddRawLiteralChar(scanner, c))

DoSelDropLiteral ==
  /\ scanner.next_.literal_chars # NULL \/ scanner.next_.raw_literal_chars # NULL
  /\ SelDone("DropLiteral", DropLiteral(scanner))

SelNext ==
  \/ DoSelAssignCurrent
  \/ DoSelStartLiteral
  \/ DoSelStartRawLiteral
  \/ \E c \in SelChars : DoSelAddLiteralChar(c)
  \/ \E c \in SelChars : DoSelAddRawLiteralChar(c)
  \/ DoSelDropLiteral

SpecSel == TokInit /\ [][SelNext]_vars

(***************************************************************************)
(* SpecBm: the Scanner with a bookmark over sources with line terminators, *)
(* unterminated strings, legacy octal numbers and supplementary            *)
(* characters; tokens are taken with Next() only.                          *)
(***************************************************************************)
MaxBmLen == 2
MaxBmOps == 4

\* 'a', a space, a line feed, a double quote, a lead and a trail surrogate.
BmAlphabet == {97, 32, 10, 34, 55296, 56320}

\* "a\na", "a 01 a", "a \"a" and 'a' before a supplementary character.
BmExamples ==
  {<<97, 10, 97>>, <<97, 32, 48, 49, 32, 97>>, <<97, 32, 34, 97>>,
   <<97, 55296, 56320>>}

BmSources == UNION {[1..n -> BmAlphabet] : n \in 0..MaxBmLen} \cup BmExamples

\* The state of the scanner outside its token descriptors, as its callers
\* read it.
Outside(s) ==
  [has_error |-> has_error(s),
   error |-> error(s),
   error_location |-> error_location(s),
   octal_position |-> octal_position(s),
   line_terminator |-> HasAnyLineTerminatorBeforeNext(s),
   html_comment |-> s.found_html_comment_,
   source_url |-> s.source_url_,
   source_mapping_url |-> s.source_mapping_url_,
   second_lookahead |-> s.next_next_.token # "UNINITIALIZED"]

BmReady == Initialized /\ nops < MaxBmOps

DoBmInitialize(src) == TokInitialized(src)

DoBmNext == BmReady /\ TokDone("Next", NextToken(scanner))

\* BookmarkScope::Set(); ok is what the stream's own SetBookmark() answers.
DoBmSetBookmark(ok) ==
  /\ BmReady
  /\ scanner' = SetBookmark(scanner, ok).s
  /\ op' = Op("SetBookmark",
              IF SetBookmark(scanner, ok).ret THEN "true" ELSE "false", ok,
              DefaultLocation)
  /\ snap' = IF SetBookmark(scanner, ok).ret THEN Outside(scanner) ELSE snap
  /\ nops' = nops + 1
  /\ UNCHANGED <<pending, since>>
  /\ UNCHANGED <<lbvars, stvars, low, dupvars, mo>>

\* BookmarkScope::Reset(); its caller has a set bookmark.
DoBmResetToBookmark ==
  /\ BmReady
  /\ BookmarkHasBeenSet(scanner)
  /\ scanner' = ResetToBookmark(scanner)
  /\ op' = Op("ResetToBookmark", "none", TRUE, DefaultLocation)
  /\ nops' = nops + 1
  /\ UNCHANGED <<pending, snap, since>>
  /\ UNCHANGED <<lbvars, stvars, low, dupvars, mo>>

\* ~BookmarkScope()
DoBmDropBookmark ==
  /\ BmReady
  /\ scanner' = DropBookmark(scanner)
  /\ op' = Op("DropBookmark", "none", TRUE, DefaultLocation)
  /\ snap' = NoSnap
  /\ nops' = nops + 1
  /\ UNCHANGED <<pending, since>>
  /\ UNCHANGED <<lbvars, stvars, low, dupvars, mo>>

BmNext ==
  \/ \E src \in BmSources : DoBmInitialize(src)
  \/ DoBmNext
  \/ \E ok \in BOOLEAN : DoBmSetBookmark(ok)
  \/ DoBmResetToBookmark
  \/ DoBmDropBookmark

SpecBm == TokInit /\ [][BmNext]_vars

(***************************************************************************)
(* Properties of the LiteralBuffer (checked under SpecLB).                 *)
(***************************************************************************)

\* C9: over AddChar calls from an empty buffer, the buffer is narrow exactly
\* while every appended value is <= 0xFF, and its logical characters are the
\* appended values in order (also right after widening, in place or into a
\* new store).
C9_NarrowWide ==
  lb_adds =>
    /\ is_one_byte(lb) <=> (\A k \in 1..Len(lb_hist) : lb_hist[k] <= kLatin1MaxChar)
    /\ length(lb) = Len(lb_hist)
    /\ Chars(lb) = lb_hist

\* C9 witnesses: a buffer that has just been widened with earlier characters
\* in it, moved into a new store.
C9_Witness ==
  /\ lb_adds /\ lb_op = "AddChar" /\ ~is_one_byte(lb)
  /\ Len(lb_hist) = 33 /\ lb_hist[32] <= kLatin1MaxChar /\ lb_hist[33] > kLatin1MaxChar
  /\ Len(lb.backing_store_) > kInitialCapacity * kGrowthFactory

\* C10 as stated: over AddChar, ReduceLength and CopyFrom, is_one_byte() never
\* goes from false to true.
C10_NeverNarrows ==
  [][(~is_one_byte(lb)
       /\ lb_op' \in {"AddChar", "ReduceLength", "CopyFrom", "CopyFromNull"})
      => ~is_one_byte(lb')]_vars

\* C10 amended: over AddChar and ReduceLength, is_one_byte() never goes from
\* false to true; CopyFrom gives the buffer the representation of its
\* argument, one-byte for nullptr.
C10_NeverNarrowsAmended ==
  [][/\ (~is_one_byte(lb) /\ lb_op' \in {"AddChar", "ReduceLength"})
        => ~is_one_byte(lb')
     /\ lb_op' = "CopyFrom" => (is_one_byte(lb') <=> is_one_byte(lb_other))
     /\ lb_op' = "CopyFromNull" => is_one_byte(lb')]_vars

\* C10 witness: a wide buffer truncated to nothing by ReduceLength stays wide.
C10_Witness ==
  lb_op = "ReduceLength" /\ ~is_one_byte(lb) /\ length(lb) = 0

\* C17: ReduceLength(delta), 0 <= delta <= length(), leaves length() less
\* delta characters, the unchanged prefix of the content, in the same
\* representation, and the AddChar after it appends right after that prefix.
C17_ReduceLengthTruncates ==
  [][/\ lb_op' = "ReduceLength"
        => /\ length(lb') = length(lb) - lb_arg'.delta
           /\ Chars(lb') = SubSeq(Chars(lb), 1, length(lb) - lb_arg'.delta)
           /\ is_one_byte(lb') = is_one_byte(lb)
     /\ (lb_op = "ReduceLength" /\ lb_op' = "AddChar")
        => /\ Chars(lb') = Chars(lb) \o Units(lb_arg'.c)
           /\ length(lb') = length(lb) + Len(Units(lb_arg'.c))]_vars

\* C17 witness: a two-byte buffer holding a surrogate pair after three 'a'
\* has lost the pair.
C17_Witness ==
  /\ lb_op = "ReduceLength" /\ lb_arg.delta = 2
  /\ ~is_one_byte(lb)
  /\ Chars(lb) = <<97, 97, 97>>
  /\ lb.position_ = 6

\* What a buffer shows: its representation and its characters.
View(b) == <<is_one_byte(b), length(b), Chars(b)>>

\* C18: b.CopyFrom(a) gives b the representation, the length and the
\* characters of a and leaves a as it was, and no later AddChar,
\* ReduceLength or Reset on one of the two changes what the other shows;
\* b.CopyFrom(nullptr) leaves b empty and one-byte.
C18_CopyFromDeep ==
  [][/\ lb_op' = "CopyFrom"
        => /\ View(lb') = View(lb_other)
           /\ lb_other' = lb_other
     /\ lb_op' = "CopyFromNull" => View(lb') = <<TRUE, 0, <<>>>>
     /\ lb_op' \in {"AddChar", "ReduceLength", "Reset"}
        => View(lb_other') = View(lb_other)
     /\ lb_op' \in OtherOps => View(lb') = View(lb)]_vars

\* C18 witness: the buffer copied from has been widened in its store after
\* the copy, and the copy, made into a buffer without a store, shows the
\* characters copied.
C18_Witness ==
  /\ lb_op = "other.AddChar" /\ lb_arg.c = 256
  /\ View(lb) = <<TRUE, 2, <<97, 97>>>>
  /\ lb_hist = <<97, 97>>
  /\ Chars(lb_other) = <<97, 97, 256>>
  /\ Len(lb.backing_store_) = Len(lb_other.backing_store_)

\* C19 as stated: the first store of a buffer has kInitialCapacity = 16
\* bytes, and an AddChar that replaces the store, the buffer full or
\* widened, gives a store larger than the old one, at most kGrowthFactory
\* times as large and at most kMaxGrowth larger.
C19_GrowthPolicy ==
  [][(/\ lb_op' = "AddChar"
      /\ Len(lb'.backing_store_) # Len(lb.backing_store_))
     => IF Len(lb.backing_store_) = 0
        THEN Len(lb'.backing_store_) = kInitialCapacity
        ELSE /\ Len(lb'.backing_store_) > Len(lb.backing_store_)
             /\ Len(lb'.backing_store_)
                  <= Len(lb.backing_store_) * kGrowthFactory
             /\ Len(lb'.backing_store_)
                  <= Len(lb.backing_store_) + kMaxGrowth]_vars

\* C20: is_contextual_keyword(text) is true exactly when the buffer is
\* one-byte, as long as the text and equal to it byte for byte; it is false
\* for every two-byte buffer and leaves the buffer as it is.
C20_ContextualKeyword ==
  [][lb_op' = "is_contextual_keyword"
     => /\ lb' = lb
        /\ lb_arg'.ret <=> /\ is_one_byte(lb)
                           /\ length(lb) = Len(lb_arg'.keyword)
                           /\ Chars(lb) = lb_arg'.keyword
        /\ ~is_one_byte(lb) => ~lb_arg'.ret
        /\ length(lb) # Len(lb_arg'.keyword) => ~lb_arg'.ret]_vars

\* C20 witness: a two-byte buffer whose only character is 'a' has been
\* asked about the text "a" and the answer is false.
C20_Witness ==
  /\ lb_op = "is_contextual_keyword"
  /\ ~is_one_byte(lb)
  /\ Chars(lb) = <<97>> /\ lb_arg.keyword = <<97>>
  /\ ~lb_arg.ret

(***************************************************************************)
(* Properties of the Scanner's error slot (checked under SpecErr).         *)
(***************************************************************************)

\* C1: once has_error() is true, no operation but Initialize() changes
\* error() or error_location() or makes has_error() false again: every later
\* ReportScannerError call, from either overload or from scanning, is
\* ignored; the first report is the one recorded.
C1_ErrorSticky ==
  [][/\ (has_error(scanner) /\ op'.name # "Initialize")
        => /\ has_error(scanner')
           /\ error(scanner') = error(scanner)
           /\ error_location(scanner') = error_location(scanner)
     /\ (~has_error(scanner) /\ op'.name = "ReportScannerError")
        => /\ error(scanner') = op'.ret
           /\ error_location(scanner') = op'.loc]_vars

\* C1 witness: with an error reported by a caller on record, Next() has
\* scanned an unterminated string, whose report changed nothing.
C1_Witness ==
  /\ op.name = "Next"
  /\ peek(scanner) = "ILLEGAL"
  /\ error(scanner) = "kMalformedRegExp"
  /\ error_location(scanner) = Location(1, 3)

(***************************************************************************)
(* Properties of the lookahead window (checked under Spec).                *)
(***************************************************************************)

\* The code units of the source text from position b up to position e.
Between(s, b, e) == {s.source_.buffer[p + 1] : p \in b..(e - 1)}

\* Token locations a and b are those of consecutive tokens of the source
\* text of s: b starts where a ends or after white space only.
Consecutive(s, a, b) ==
  /\ a.end_pos <= b.beg_pos
  /\ \A c \in Between(s, a.end_pos, b.beg_pos) : IsWhiteSpace(c)

\* C2 as stated: Next() returns the kind peek() reported and makes the
\* peeked token, with its location, the current one; the token it delivers
\* follows the token delivered before it in the source text and the token
\* to be delivered next follows it, so that none is skipped or delivered
\* twice.
C2_LookaheadConsistent ==
  [][op'.name = "Next"
     => /\ op'.ret = peek(scanner)
        /\ current_token(scanner') = peek(scanner)
        /\ location(scanner') = peek_location(scanner)
        /\ Consecutive(scanner', location(scanner), location(scanner'))
        /\ Consecutive(scanner', location(scanner'), peek_location(scanner'))]_vars

\* C3: PeekAhead() changes none of current_token(), location(), peek() and
\* peek_location(); called again it returns the same kind and changes
\* nothing at all, the stream included; and the Next() calls that follow
\* return the kind peek() reported and then the kind PeekAhead() reported.
C3_PeekAheadConsumesNothing ==
  [][/\ op'.name = "PeekAhead"
        => /\ current_token(scanner') = current_token(scanner)
           /\ location(scanner') = location(scanner)
           /\ peek(scanner') = peek(scanner)
           /\ peek_location(scanner') = peek_location(scanner)
     /\ (op.name = "PeekAhead" /\ op'.name = "PeekAhead")
        => op'.ret = op.ret /\ scanner' = scanner
     /\ (op'.name = "Next" /\ pending # <<>>) => op'.ret = Head(pending)]_vars

\* C3 witness: a '(' was peeked and an identifier peeked ahead; Next() has
\* returned the '(' and the identifier is still promised.
C3_Witness ==
  /\ op.name = "Next" /\ op.ret = "LPAREN"
  /\ pending = <<"IDENTIFIER">>
  /\ peek(scanner) = "IDENTIFIER"

\* The literal handles of the tokens alive in the lookahead window.
WindowHandles(s, member) ==
  <<s.current_[member], s.next_[member]>>
    \o (IF s.next_next_.token # "UNINITIALIZED" THEN <<s.next_next_[member]>>
        ELSE <<>>)

Distinct(handles) ==
  \A i, j \in 1..Len(handles) :
    (i # j /\ handles[i] # NULL /\ handles[j] # NULL) => handles[i] # handles[j]

\* C4 as stated: after Next() and PeekAhead() calls the non-null literal
\* buffers of current, next and next-next are pairwise distinct, and
\* scanning a lookahead token leaves the literal readable through the
\* current token as it was.
C4_NoAliasing ==
  [][op'.name \in {"Next", "PeekAhead"}
     => /\ Distinct(WindowHandles(scanner', "literal_chars"))
        /\ Distinct(WindowHandles(scanner', "raw_literal_chars"))
        /\ op'.name = "PeekAhead"
           => TokenOf(scanner', scanner'.current_)
                = TokenOf(scanner, scanner.current_)
        /\ op'.name = "Next"
           => TokenOf(scanner', scanner'.current_)
                = TokenOf(scanner, scanner.next_)]_vars

(***************************************************************************)
(* Properties of the bookmark (checked under Spec).                        *)
(***************************************************************************)

\* C5 as stated: ResetToBookmark() after any number of Next() and
\* PeekAhead() calls restores the current and next tokens, with locations
\* and literals, and the tokens the following Next() calls return, to what
\* they were when the bookmark was set.
C5_BookmarkRestores ==
  [][op'.name = "ResetToBookmark" => Observables(scanner') = snap]_vars

\* C6: a successful SetBookmark() followed at once by ResetToBookmark()
\* leaves the current and next tokens and the tokens all following Next()
\* calls return as they were without the bookmark.
C6_BookmarkIdempotent ==
  [][(op.name = "SetBookmark" /\ op.ret = "true" /\ op'.name = "ResetToBookmark")
     => /\ Observables(scanner') = snap
        /\ Observables(scanner') = Observables(scanner)]_vars

\* C6 witness: the bookmark was reset right after it was set, for the second
\* time, with an identifier with a literal as next token and tokens to come.
C6_Witness ==
  /\ op.name = "ResetToBookmark" /\ since = 0 /\ nops >= 5
  /\ peek(scanner) = "IDENTIFIER"
  /\ Lit(scanner, scanner.next_.literal_chars).chars # <<>>
  /\ Len(Future(scanner)) >= 2

\* C7: the control state is always one of unset, set and applied; it changes
\* from unset to set by a SetBookmark() that returns true, from set to
\* applied by ResetToBookmark() and to unset by DropBookmark(), and in no
\* other way; SetBookmark() with a bookmark set or applied, or refused by the
\* stream, returns false and changes nothing of the Scanner.
C7_BookmarkStateMachine ==
  /\ ControlState(scanner) = "unset"
  /\ [][/\ ControlState(scanner') \in {"unset", "set", "applied"}
        /\ ControlState(scanner') # ControlState(scanner)
           => \/ /\ ControlState(scanner) = "unset"
                 /\ ControlState(scanner') = "set"
                 /\ op'.name = "SetBookmark" /\ op'.ret = "true"
              \/ /\ ControlState(scanner) = "set"
                 /\ ControlState(scanner') = "applied"
                 /\ op'.name = "ResetToBookmark"
              \/ /\ ControlState(scanner') = "unset"
                 /\ op'.name = "DropBookmark"
        /\ (op'.name = "SetBookmark" /\ op'.ret = "true")
           => ControlState(scanner) = "unset" /\ ControlState(scanner') = "set"
        /\ op'.name = "ResetToBookmark" => ControlState(scanner') = "applied"
        /\ (/\ op'.name = "SetBookmark"
            /\ (ControlState(scanner) \in {"set", "applied"} \/ ~op'.ok))
           => op'.ret = "false" /\ scanner' = scanner]_vars

\* C7 witness: SetBookmark() was refused on an applied bookmark although the
\* stream would have taken one.
C7_Witness ==
  /\ op.name = "SetBookmark" /\ op.ok /\ op.ret = "false"
  /\ ControlState(scanner) = "applied"
  /\ scanner.c0_ >= 0 /\ scanner.next_next_.token = "UNINITIALIZED"

\* DropBookmark() changes no member of the Scanner but the control variable.
DropFrame ==
  op'.name = "DropBookmark"
    => /\ \A f \in DOMAIN scanner \ {"bookmark_c0_"} : scanner'[f] = scanner[f]
       /\ ControlState(scanner') = "unset"

UnitAt(st, p) == IF p < Len(st.buffer) THEN st.buffer[p + 1] ELSE kEndOfInput

\* C14: every Advance() raises pos() by exactly one, also at and past the
\* end of the input, and returns the unit at the old position or, none being
\* there, the negative sentinel; after k Advance() calls and nothing else on
\* a new stream pos() = k, and the calls past the end all returned the
\* sentinel.
C14_AdvancePastEnd ==
  [][/\ st_log'.call.op = "Advance"
        => /\ pos(stream') = pos(stream) + 1
           /\ st_log'.call.ret = UnitAt(stream, pos(stream))
           /\ pos(stream) >= Len(stream.buffer) => st_log'.call.ret < 0
     /\ st_log'.plain
        => /\ pos(stream') = Len(st_log'.advs)
           /\ \A k \in 1..Len(st_log'.advs) :
                st_log'.advs[k] = UnitAt(stream', k - 1)]_vars

\* C14 witness: Advance() has been called twice more than the input has
\* units.
C14_Witness ==
  /\ st_log.plain /\ st_log.call.op = "Advance"
  /\ Len(stream.buffer) = 2
  /\ pos(stream) = 4
  /\ st_log.advs[3] = kEndOfInput /\ st_log.advs[4] = kEndOfInput

\* C15 as stated: over Advance, SeekForward, PushBack and SetBookmark pos()
\* never decreases.
C15_PosMonotonic ==
  [][st_log'.call.op \in {"Advance", "SeekForward", "PushBack", "SetBookmark"}
       => pos(stream') >= pos(stream)]_vars

\* C15 amended: pos() never decreases over Advance, SeekForward and
\* SetBookmark; PushBack lowers it by exactly one, ResetToBookmark takes it
\* back to where the bookmark was set.
C15_PosMonotonicAmended ==
  [][/\ st_log'.call.op = "Advance" => pos(stream') = pos(stream) + 1
     /\ st_log'.call.op = "SeekForward"
        => /\ pos(stream') = pos(stream) + st_log'.call.ret
           /\ st_log'.call.ret >= 0
           /\ st_log'.call.ret <= st_log'.call.arg
     /\ st_log'.call.op = "SetBookmark" => pos(stream') = pos(stream)
     /\ st_log'.call.op = "PushBack" => pos(stream') = pos(stream) - 1
     /\ st_log'.call.op = "ResetToBookmark"
        => pos(stream') = stream.bookmark_]_vars

\* C15 witness: the sentinel returned past the end has been pushed back
\* after a seek over the whole input.
C15_Witness ==
  /\ st_log.call.op = "PushBack" /\ st_log.call.arg = kEndOfInput
  /\ pos(stream) = Len(stream.buffer)
  /\ Len(stream.buffer) = 2
  /\ st_log.advs = <<kEndOfInput>>

(***************************************************************************)
(* Properties of the low-level support (checked under SpecLow).            *)
(***************************************************************************)

\* The operations whose Advance() fetches from the stream.
Fetching == {"Init", "Advance", "AddLiteralCharAdvance"}

\* The position of the stream before the operation that leads to the next
\* state: Init() starts on a new stream.
PosBefore == IF op'.name = "Init" THEN 0 ELSE pos(scanner.source_)

\* The unit of the source text k units after that position.
Fetched(k) == UnitAt(scanner'.source_, PosBefore + k)

\* C11: when Advance() fetches a lead surrogate L that a trail surrogate T
\* follows, c0_ is the one code point combined of them and both units are
\* consumed; appending such a c0_ to the literal makes the buffer wide and
\* appends exactly the two units L and T, the length growing by two.
C11_SurrogatePairRoundTrip ==
  [][/\ (/\ op'.name \in Fetching
         /\ IsLeadSurrogate(Fetched(0)) /\ IsTrailSurrogate(Fetched(1)))
        => /\ scanner'.c0_ = CombineSurrogatePair(Fetched(0), Fetched(1))
           /\ scanner'.c0_ > kMaxNonSurrogateCharCode
           /\ pos(scanner'.source_) = PosBefore + 2
     /\ (/\ op'.name = "AddLiteralCharAdvance"
         /\ scanner.c0_ > kMaxNonSurrogateCharCode
         /\ ~low.pushed)
        => /\ ~is_one_byte(scanner'[low.buf])
           /\ length(scanner'[low.buf]) = length(scanner[low.buf]) + 2
           /\ Chars(scanner'[low.buf])
                = Chars(scanner[low.buf])
                    \o <<UnitAt(scanner.source_, pos(scanner.source_) - 2),
                         UnitAt(scanner.source_, pos(scanner.source_) - 1)>>
           /\ IsLeadSurrogate(UnitAt(scanner.source_, pos(scanner.source_) - 2))
           /\ IsTrailSurrogate(UnitAt(scanner.source_, pos(scanner.source_) - 1))
    ]_vars

\* C11 witness: the pair of the last lead and the first trail surrogate has
\* been appended to a literal that held an 'a' in one-byte form.
C11_Witness ==
  /\ op.name = "AddLiteralCharAdvance"
  /\ low.chars = <<97, 56319, 56320>>
  /\ Chars(scanner[low.buf]) = <<97, 56319, 56320>>
  /\ ~is_one_byte(scanner[low.buf])
  /\ pos(scanner.source_) = 4

\* What holds whenever Advance() fetches a lead surrogate that no trail
\* surrogate follows: c0_ is the lead unit, no error is recorded, the stream
\* is one unit further and gives the unit that followed next.
LoneLeadKept ==
  /\ scanner'.c0_ = Fetched(0)
  /\ ~has_error(scanner')
  /\ pos(scanner'.source_) = PosBefore + 1
  /\ Utf16Advance(scanner'.source_).unit = Fetched(1)

\* C12: when Advance() fetches a lead surrogate that anything but a trail
\* surrogate follows (another lead, an ordinary unit, the end of the input),
\* c0_ is that lead unit, no error is recorded, the stream has moved on by
\* exactly one unit and its next Advance() delivers exactly the unit that
\* followed the lead; the Scanner's next Advance() makes that unit c0_, or,
\* when it is a lead surrogate with its trail surrogate, the code point
\* combined of the two: no unit is lost, duplicated or altered.
C12_LoneLead ==
  [][(/\ op'.name \in Fetching
      /\ IsLeadSurrogate(Fetched(0)) /\ ~IsTrailSurrogate(Fetched(1)))
     => /\ LoneLeadKept
        /\ Advance(scanner').c0_
             = IF IsLeadSurrogate(Fetched(1)) /\ IsTrailSurrogate(Fetched(2))
               THEN CombineSurrogatePair(Fetched(1), Fetched(2))
               ELSE Fetched(1)]_vars

\* C12 witness: a lead surrogate, fetched with the end of the input after
\* it, is c0_ and the stream is at the end of the input.
C12_Witness ==
  /\ op.name = "Advance"
  /\ scanner.source_.buffer = <<97, 55296>>
  /\ scanner.c0_ = 55296
  /\ pos(scanner.source_) = 2
  /\ low.trace[Len(low.trace)] = StCall("PushBack", kEndOfInput, 0)

\* C13: the Scanner never calls the stream's PushBack twice without an
\* Advance of the stream in between, and every unit it pushes back is the
\* unit the most recent Advance of the stream returned.
C13_PushBackProtocol ==
  \A i \in 1..Len(low.trace) :
    low.trace[i].op = "PushBack"
      => /\ i > 1
         /\ low.trace[i - 1].op = "Advance"
         /\ low.trace[i].arg = low.trace[i - 1].ret

\* C16: when a LiteralScope ends without Complete(), the literal and the
\* raw literal handle of next_ are NULL and no token refers to the buffer
\* the scope filled; when it ends after Complete(), next_ refers to the
\* buffer selected when the scope began and the buffer holds the characters
\* added within the scope.
C16_LiteralScopeRelease ==
  [][op'.name = "~LiteralScope"
     => IF low.scope # "complete"
        THEN /\ scanner'.next_.literal_chars = NULL
             /\ scanner'.next_.raw_literal_chars = NULL
             /\ scanner'.current_.literal_chars # low.buf
             /\ scanner'.next_next_.literal_chars # low.buf
        ELSE /\ scanner'.next_.literal_chars = low.buf
             /\ low.buf # NULL
             /\ Chars(scanner'[low.buf]) = low.chars
             /\ scanner'.next_.raw_literal_chars
                  = scanner.next_.raw_literal_chars]_vars

\* C16 witness: a scope with a raw literal, a character added in it, has
\* ended without Complete().
C16_Witness ==
  /\ op.name = "~LiteralScope" /\ op.ret = "open"
  /\ low.chars # <<>>
  /\ scanner.raw_literal_buffer0_ = Reset(scanner.raw_literal_buffer0_)
  /\ scanner.literal_buffer0_.position_ > 0
  /\ scanner.next_.literal_chars = NULL

(***************************************************************************)
(* Properties of the DuplicateFinder (checked under SpecDup).              *)
(***************************************************************************)

\* The canonical decimal string of the number literals: "1" and "1.0" are
\* the number 1, and "1.50" is 1.5.
CanonicalString(key) ==
  CASE key = <<49>> -> <<49>>
    [] key = <<49, 46, 48>> -> <<49>>
    [] key = <<49, 46, 53, 48>> -> <<49, 46, 53>>

\* The key an add is about: its representation and its content, the content
\* of a number being its canonical string.
KeyOf(l) ==
  <<l.is_one_byte,
    IF l.op = "AddNumber" THEN CanonicalString(l.arg) ELSE l.key>>

\* The adds before the i-th that are about the key of the i-th.
EarlierAdds(i) == {j \in 1..(i - 1) : KeyOf(dup_log[j]) = KeyOf(dup_log[i])}

\* The most recent of a non-empty set of adds.
Latest(adds) == CHOOSE j \in adds : \A k \in adds : k <= j

\* The adds after the i-th that are about the key of the i-th.
LaterAdds(i) ==
  {j \in (i + 1)..Len(dup_log) : KeyOf(dup_log[j]) = KeyOf(dup_log[i])}

\* The value the finder holds for the entry with the key at `entry`.
StoredValues(entry) == {e.value : e \in {f \in dup.map_ : f.key = entry}}

\* C21: an add of a key that was added before returns the value passed by
\* the most recent earlier add of this key, and the value it passes is the
\* one the finder holds for the key until the next add of the key.
C21_OverwriteSemantics ==
  \A i \in 1..Len(dup_log) :
    /\ EarlierAdds(i) # {} =>
         dup_log[i].ret = dup_log[Latest(EarlierAdds(i))].value
    /\ LaterAdds(i) = {} =>
         StoredValues(dup_log[i].entry) = {dup_log[i].value}

\* Witness of C21: "x" added with 1, with 2 and with 1 again; the second add
\* has returned 1 and the third 2.
C21_Witness ==
  /\ Len(dup_log) = 3
  /\ \A i \in 1..3 : dup_log[i].op = "AddOneByteSymbol" /\ dup_log[i].key = <<120>>
  /\ dup_log[1].value = 1 /\ dup_log[2].value = 2
  /\ dup_log[2].ret = 1 /\ dup_log[3].ret = 2

\* The first add of a key, and an add of a key added before.
FirstOccurrence(i) == EarlierAdds(i) = {}
Duplicate(i) == EarlierAdds(i) # {}

\* C22: the value returned tells a first occurrence from a duplicate: no
\* first add of a key returns what some add of a key added before returns.
C22_FirstOccurrenceDistinguishable ==
  \A i \in 1..Len(dup_log), j \in 1..Len(dup_log) :
    FirstOccurrence(i) /\ Duplicate(j) => dup_log[i].ret # dup_log[j].ret

\* The adds of symbols: the key is taken as it is given.
IsSymbolAdd(l) == l.op # "AddNumber"

\* C23: two adds of symbols use the same entry exactly when their keys have
\* the same representation, the same length and the same bytes, whatever
\* the addresses the keys are held at.
C23_StructuralEquality ==
  \A i \in 1..Len(dup_log), j \in 1..Len(dup_log) :
    i < j /\ IsSymbolAdd(dup_log[i]) /\ IsSymbolAdd(dup_log[j]) =>
      /\ dup_log[i].at # dup_log[j].at
      /\ dup_log[i].entry = dup_log[j].entry
           <=> /\ dup_log[i].is_one_byte = dup_log[j].is_one_byte
               /\ Len(dup_log[i].key) = Len(dup_log[j].key)
               /\ dup_log[i].key = dup_log[j].key

\* s is a proper prefix of t.
ProperPrefix(s, t) == Len(s) < Len(t) /\ SubSeq(t, 1, Len(s)) = s

\* Witness of C23: the finder has been given a one-byte key and a two-byte
\* key of the same bytes, a key and a proper prefix of it, and one key
\* twice; only the last two adds use the same entry.
C23_Witness ==
  /\ Len(dup_log) = 3
  /\ \E i \in 1..3, j \in 1..3 :
       /\ dup_log[i].key = dup_log[j].key
       /\ dup_log[i].is_one_byte # dup_log[j].is_one_byte
       /\ dup_log[i].entry # dup_log[j].entry
  /\ dup_log[2].key = dup_log[3].key
  /\ dup_log[2].entry = dup_log[3].entry
  /\ dup_log[2].at # dup_log[3].at

\* C23, second witness: a key and a proper prefix of it use two entries.
C23_WitnessPrefix ==
  \E i \in 1..Len(dup_log), j \in 1..Len(dup_log) :
    /\ IsSymbolAdd(dup_log[i]) /\ IsSymbolAdd(dup_log[j])
    /\ dup_log[i].is_one_byte = dup_log[j].is_one_byte
    /\ ProperPrefix(dup_log[i].key, dup_log[j].key)
    /\ dup_log[i].entry # dup_log[j].entry

\* The adds of one-byte content: numbers and one-byte symbols.
IsOneByteAdd(l) == l.is_one_byte

\* The last add.
LastAdd == dup_log[Len(dup_log)]

\* C24: an AddNumber of a literal leaves the finder as AddOneByteSymbol of
\* the canonical string of the literal's value does and returns what it
\* returns; so two adds of numbers or one-byte symbols use the same entry
\* exactly when their canonical strings are the same.
C24_NumberCanonical ==
  /\ [][dup_log' # dup_log /\ LastAdd'.op = "AddNumber" =>
          /\ dup'.map_ = AddOneByteSymbol(dup, CanonicalString(LastAdd'.arg),
                                          LastAdd'.value).d.map_
          /\ LastAdd'.ret = AddOneByteSymbol(dup, CanonicalString(LastAdd'.arg),
                                             LastAdd'.value).ret]_vars
  /\ [](\A i \in 1..Len(dup_log), j \in 1..Len(dup_log) :
          IsOneByteAdd(dup_log[i]) /\ IsOneByteAdd(dup_log[j]) =>
            (dup_log[i].entry = dup_log[j].entry
               <=> KeyOf(dup_log[i]) = KeyOf(dup_log[j])))

\* Witness of C24: "1.0" added as a number, "1" added as a number and "1"
\* added as a one-byte symbol; the second add has returned the value of
\* the first and the third the value of the second.
C24_Witness ==
  /\ Len(dup_log) = 3
  /\ dup_log[1].op = "AddNumber" /\ dup_log[1].arg = <<49, 46, 48>>
  /\ dup_log[2].op = "AddNumber" /\ dup_log[2].arg = <<49>>
  /\ dup_log[3].op = "AddOneByteSymbol" /\ dup_log[3].arg = <<49>>
  /\ dup_log[2].found /\ dup_log[2].ret = dup_log[1].value
  /\ dup_log[3].found /\ dup_log[3].ret = dup_log[2].value

\* The add l made again on the finder d.
Again(d, l) ==
  IF l.op = "AddNumber" THEN AddNumber(d, l.arg, l.value)
  ELSE AddSymbol(d, l.key, l.is_one_byte, l.value)

\* What the last of the adds `adds` of dup_log, made in their order on the
\* finder d, returns; `ret` when there is none.
RECURSIVE ReturnedAlone(_, _, _)
ReturnedAlone(d, adds, ret) ==
  IF adds = {} THEN ret
  ELSE ReturnedAlone(
         Again(d, dup_log[CHOOSE j \in adds : \A k \in adds : j <= k]).d,
         adds \ {CHOOSE j \in adds : \A k \in adds : j <= k},
         Again(d, dup_log[CHOOSE j \in adds : \A k \in adds : j <= k]).ret)

\* The keys of the entries of a finder.
EntryKeys(d) == {e.key : e \in d.map_}

\* C25: an add removes no entry and no byte of the backing store, and it
\* returns what it returns in a finder that is given the adds of its key
\* only.
C25_EntriesKept ==
  /\ [][/\ EntryKeys(dup) \subseteq EntryKeys(dup')
        /\ SubSeq(dup'.backing_store_, 1, Len(dup.backing_store_))
             = dup.backing_store_]_vars
  /\ [](\A i \in 1..Len(dup_log) :
          dup_log[i].ret =
            ReturnedAlone(NewDuplicateFinder, EarlierAdds(i) \cup {i}, 0))

\* Witness of C25: "x" has been added, then the two-byte key 'x', which has
\* the hash of "x", then "x" again, which has returned the value of its
\* first add.
C25_Witness ==
  /\ Len(dup_log) = 3
  /\ dup_log[1].op = "AddOneByteSymbol" /\ dup_log[1].key = <<120>>
  /\ dup_log[2].op = "AddTwoByteSymbol"
  /\ Hash(dup_log[2].key, FALSE) = Hash(dup_log[1].key, TRUE)
  /\ dup_log[3].op = "AddOneByteSymbol" /\ dup_log[3].key = <<120>>
  /\ dup_log[1].value # dup_log[2].value
  /\ dup_log[3].ret = dup_log[1].value
  /\ Cardinality(dup.map_) = 2

(***************************************************************************)
(* Properties of token scanning (checked under SpecTok).                   *)
(***************************************************************************)

\* The units of the source the Scanner reads.
SourceOf(s) == s.source_.buffer

\* The unit of the source at position p, kEndOfInput outside the source.
SourceAt(s, p) ==
  IF p >= 0 /\ p < Len(SourceOf(s)) THEN SourceOf(s)[p + 1] ELSE kEndOfInput

\* Next() has been called.
NextCalled == Initialized /\ scanner.current_.token # "UNINITIALIZED"

\* One of the next n calls of Next() returns EOS.
RECURSIVE EOSWithin(_, _)
EOSWithin(s, n) ==
  /\ n > 0
  /\ NextToken(s).ret = "EOS" \/ EOSWithin(NextToken(s).s, n - 1)

\* The units of the source after the token last returned.
Remaining(s) ==
  Len(SourceOf(s)) - (IF NextCalled THEN s.current_.location.end_pos ELSE 0)

\* C26: after Initialize(), Next() called again and again returns EOS
\* within as many calls as units of the source remain after the current
\* token, and one more; once Next() has returned EOS, peek() is EOS and so
\* are Next() and PeekAhead().
C26_Termination ==
  Initialized =>
    /\ EOSWithin(scanner, Remaining(scanner) + 1)
    /\ op.name = "Next" /\ op.ret = "EOS" =>
         /\ peek(scanner) = "EOS"
         /\ NextToken(scanner).ret = "EOS"
         /\ PeekAheadToken(scanner).ret = "EOS"
         /\ current_token(NextToken(scanner).s) = "EOS"

\* Witness of C26: a source of three tokens; the fourth Next() has returned
\* EOS.
C26_Witness ==
  /\ SourceOf(scanner) = <<42, 97, 42>>
  /\ nops = 4
  /\ op.name = "Next" /\ op.ret = "EOS"
  /\ peek(scanner) = "EOS"

\* No closing quote follows position p before a line terminator or the end.
RECURSIVE NoClosingQuote(_, _)
NoClosingQuote(s, p) ==
  \/ SourceAt(s, p) < 0
  \/ IsLineTerminator(SourceAt(s, p))
  \/ SourceAt(s, p) # 34 /\ NoClosingQuote(s, p + 1)

\* No '/' follows position p before a line terminator or the end.
RECURSIVE NoClosingSlash(_, _)
NoClosingSlash(s, p) ==
  \/ SourceAt(s, p) < 0
  \/ IsLineTerminator(SourceAt(s, p))
  \/ SourceAt(s, p) # 47 /\ NoClosingSlash(s, p + 1)

\* The construct that starts at position b of the source and does not end,
\* regexp telling whether a regular expression is asked for; "kNone" when
\* there is none.
Unterminated(s, b, regexp) ==
  IF SourceAt(s, b) = 34 /\ NoClosingQuote(s, b + 1)
  THEN "kUnterminatedString"
  ELSE IF /\ SourceAt(s, b) = 96
          /\ \A p \in (b + 1)..Len(SourceOf(s)) : SourceAt(s, p) # 96
  THEN "kUnterminatedTemplate"
  ELSE IF /\ SourceAt(s, b) = 47 /\ SourceAt(s, b + 1) = 42
          /\ \A p \in (b + 2)..Len(SourceOf(s)) :
               ~(SourceAt(s, p) = 42 /\ SourceAt(s, p + 1) = 47)
  THEN "kUnterminatedComment"
  ELSE IF regexp /\ SourceAt(s, b) = 47 /\ NoClosingSlash(s, b + 1)
  THEN "kUnterminatedRegExp"
  ELSE "kNone"

\* The token d, scanned by the step from s to t, is right for a construct
\* that does not end: it is ILLEGAL and has no literal, the error slot is
\* taken, by the error of this construct at a valid location if the slot was
\* empty, and Next() goes on to EOS.
UnterminatedReported(s, t, d, kind) ==
  /\ d.token = "ILLEGAL"
  /\ d.literal_chars = NULL /\ d.raw_literal_chars = NULL
  /\ has_error(t)
  /\ ~has_error(s) =>
       /\ error(t) = kind
       /\ IsValid(error_location(t))
       /\ error_location(t).beg_pos = d.location.beg_pos
  /\ EOSWithin(t, Len(SourceOf(t)) + 2)

\* C27: a step that scans a token which starts a string, a template, a
\* multi-line comment or, asked for, a regular expression that does not
\* end delivers ILLEGAL without a literal and, the error slot empty before,
\* records the error of the construct at a valid location; scanning goes on.
C27_UnterminatedConstructs ==
  [][\A slot \in {"next_", "next_next_"} :
       /\ scanner'[slot] # scanner[slot]
       /\ scanner'[slot].token # "UNINITIALIZED"
       /\ Unterminated(scanner', scanner'[slot].location.beg_pos,
                       op'.name = "ScanRegExpPattern") # "kNone"
       => UnterminatedReported(
            scanner, scanner', scanner'[slot],
            Unterminated(scanner', scanner'[slot].location.beg_pos,
                         op'.name = "ScanRegExpPattern"))]_vars

\* Witness of C27: the source "/* a"; Next() has returned ILLEGAL, the
\* error is the unterminated comment, and the next Next() has returned EOS.
C27_Witness ==
  /\ SourceOf(scanner) = <<47, 42, 32, 97>>
  /\ nops = 2
  /\ op.name = "Next" /\ op.ret = "EOS"
  /\ has_error(scanner) /\ error(scanner) = "kUnterminatedComment"
  /\ IsValid(error_location(scanner))

\* A line terminator lies in the source from position b up to position e.
LineTerminatorBetween(s, b, e) ==
  \E p \in b..(e - 1) : IsLineTerminator(SourceAt(s, p))

\* C30: after the first Next(), HasAnyLineTerminatorBeforeNext() tells
\* whether a line terminator lies between the end of the current token and
\* the start of the token ahead, also after PeekAhead().
C30_LineTerminatorBeforeNext ==
  NextCalled =>
    (HasAnyLineTerminatorBeforeNext(scanner)
       <=> LineTerminatorBetween(scanner, scanner.current_.location.end_pos,
                                 scanner.next_.location.beg_pos))

(***************************************************************************)
(* Properties of template scanning (checked under SpecTpl).                *)
(***************************************************************************)

\* The position after the end of the template span whose characters start
\* at position p of the source: after the first backtick or "${" that no
\* backslash escapes; -1 when the span does not end.
RECURSIVE SpanEnd(_, _)
SpanEnd(s, p) ==
  IF SourceAt(s, p) < 0 THEN 0 - 1
  ELSE IF SourceAt(s, p) = 96 THEN p + 1
  ELSE IF SourceAt(s, p) = 36 /\ SourceAt(s, p + 1) = 123 THEN p + 2
  ELSE IF SourceAt(s, p) = 92
  THEN IF SourceAt(s, p + 1) < 0 THEN 0 - 1 ELSE SpanEnd(s, p + 2)
  ELSE SpanEnd(s, p + 1)

\* The units of the source from position b up to position e.
SourceUnits(s, b, e) == SubSeq(SourceOf(s), b + 1, e)

\* Units with their escapes decoded: a backslash and 'n' are the line feed,
\* a backslash and another unit are that unit.
RECURSIVE Decoded(_)
Decoded(units) ==
  IF units = <<>> THEN <<>>
  ELSE IF Head(units) = 92 /\ Len(units) > 1
  THEN <<IF units[2] = 110 THEN 10 ELSE units[2]>>
         \o Decoded(SubSeq(units, 3, Len(units)))
  ELSE <<Head(units)>> \o Decoded(Tail(units))

\* The units between the delimiters of the template token d.
SpanUnits(s, d) ==
  SourceUnits(s, d.location.beg_pos + 1,
              d.location.end_pos - (IF d.token = "TEMPLATE_TAIL" THEN 1 ELSE 2))

\* The template token d is right: it ends where its span ends in the
\* source, as TEMPLATE_TAIL at a backtick and as TEMPLATE_SPAN at "${"; its
\* raw literal is the units of the span and its literal those units decoded.
TemplateRight(s, d) ==
  /\ d.location.end_pos = SpanEnd(s, d.location.beg_pos + 1)
  /\ d.token = "TEMPLATE_TAIL" <=> SourceAt(s, d.location.end_pos - 1) = 96
  /\ d.token = "TEMPLATE_SPAN" <=>
       /\ SourceAt(s, d.location.end_pos - 2) = 36
       /\ SourceAt(s, d.location.end_pos - 1) = 123
  /\ Lit(s, d.raw_literal_chars).chars = SpanUnits(s, d)
  /\ Lit(s, d.literal_chars).chars = Decoded(SpanUnits(s, d))
  /\ (\A k \in 1..Len(SpanUnits(s, d)) : SpanUnits(s, d)[k] # 92) =>
       Lit(s, d.literal_chars).chars = Lit(s, d.raw_literal_chars).chars

IsTemplate(d) == d.token \in {"TEMPLATE_SPAN", "TEMPLATE_TAIL"}

\* C28: a template token, ahead or current, ends where its span ends in
\* the source, as TEMPLATE_SPAN at "${" and as TEMPLATE_TAIL at the closing
\* backtick; its raw literal is the source units of the span, its literal
\* those units with the escapes decoded, and the two are the same for a
\* span without escapes. A token that starts with a backtick whose span
\* ends is a template token.
C28_TemplateCookedRaw ==
  Initialized =>
    /\ IsTemplate(scanner.next_) => TemplateRight(scanner, scanner.next_)
    /\ IsTemplate(scanner.current_) => TemplateRight(scanner, scanner.current_)
    /\ /\ SourceAt(scanner, scanner.next_.location.beg_pos) = 96
       /\ scanner.next_.token # "EOS"
       /\ SpanEnd(scanner, scanner.next_.location.beg_pos + 1) >= 0
       => IsTemplate(scanner.next_)

\* Witness of C28: the source `a${1}b`; the head has been returned, then
\* the NUMBER, the continuation has been asked for, and Next() has returned
\* the tail with the literal "b" and the raw literal "b".
C28_Witness ==
  /\ SourceOf(scanner) = <<96, 97, 36, 123, 49, 125, 98, 96>>
  /\ nops = 4
  /\ op.name = "Next" /\ op.ret = "TEMPLATE_TAIL"
  /\ Lit(scanner, scanner.current_.literal_chars).chars = <<98>>
  /\ Lit(scanner, scanner.current_.raw_literal_chars).chars = <<98>>
  /\ peek(scanner) = "EOS"

(***************************************************************************)
(* Properties of the octal position (checked under SpecOct).               *)
(***************************************************************************)

\* The source from position b up to position e is a legacy octal literal: a
\* zero followed by octal digits.
IsLegacyOctal(s, b, e) ==
  /\ e - b >= 2
  /\ SourceAt(s, b) = 48
  /\ \A p \in (b + 1)..(e - 1) : IsOctalDigit(SourceAt(s, p))

\* The token d is a legacy octal literal.
IsOctalToken(s, d) ==
  d.token = "NUMBER" /\ IsLegacyOctal(s, d.location.beg_pos, d.location.end_pos)

\* The operation `name` scans a token when it starts with the scanner s:
\* Initialize() does, and so do Next() and PeekAhead() when no second token
\* ahead is held.
Scans(s, name) ==
  /\ name \in {"Initialize", "Next", "PeekAhead"}
  /\ s.next_next_.token = "UNINITIALIZED"

\* The token a step has scanned: the one ahead, or after PeekAhead() the
\* second one ahead.
Scanned(s, name) == IF name = "PeekAhead" THEN s.next_next_ ELSE s.next_

\* C29: a legacy octal literal is a NUMBER whose value is the octal value,
\* and no error is recorded for it; the step that scans it sets
\* octal_position() to its location, a step that scans another token
\* leaves octal_position() as it is, and clear_octal_position() makes it
\* the invalid location (-1, -1).
C29_OctalPosition ==
  /\ [](Initialized /\ IsOctalToken(scanner, scanner.current_) =>
          /\ DoubleValue(scanner)
               = RadixValue(SourceUnits(scanner,
                                        scanner.current_.location.beg_pos,
                                        scanner.current_.location.end_pos), 8)
          /\ ~has_error(scanner))
  /\ [][IF op'.name = "clear_octal_position"
        THEN octal_position(scanner') = Location(0 - 1, 0 - 1)
        ELSE IF /\ Scans(scanner, op'.name)
                /\ IsOctalToken(scanner', Scanned(scanner', op'.name))
        THEN /\ octal_position(scanner') = Scanned(scanner', op'.name).location
             /\ IsValid(octal_position(scanner'))
        ELSE octal_position(scanner') = octal_position(scanner)]_vars

\* Witness of C29: the source "012 1 017"; the octal position of 012 has
\* been cleared, 1 has been returned, and 017, scanned ahead, has set the
\* octal position again.
C29_Witness ==
  /\ SourceOf(scanner) = <<48, 49, 50, 32, 49, 32, 48, 49, 55>>
  /\ current_token(scanner) = "NUMBER" /\ DoubleValue(scanner) = 1
  /\ op.name = "Next"
  /\ octal_position(scanner) = Location(6, 9)
  /\ nops = 3

(***************************************************************************)
(* Properties of the selection of literal buffers (checked under SpecSel). *)
(***************************************************************************)

LiteralBuffers == {"literal_buffer0_", "literal_buffer1_", "literal_buffer2_"}
RawLiteralBuffers ==
  {"raw_literal_buffer0_", "raw_literal_buffer1_", "raw_literal_buffer2_"}

\* The step from s to t has selected one of `buffers` for the handle
\* `handle` of next_: a buffer the current token does not reference, the
\* first of them when the current token references none; t differs from s
\* in that buffer, which is empty and narrow, and in the handle only.
Selected(s, t, buffers, first, handle) ==
  /\ t.next_[handle] \in buffers
  /\ t.next_[handle] # s.current_[handle]
  /\ s.current_[handle] = NULL => t.next_[handle] = first
  /\ length(t[t.next_[handle]]) = 0
  /\ is_one_byte(t[t.next_[handle]])
  /\ \A b \in (LiteralBuffers \cup RawLiteralBuffers) \ {t.next_[handle]} :
       t[b] = s[b]
  /\ t.current_ = s.current_
  /\ t = [s EXCEPT ![t.next_[handle]] = t[t.next_[handle]],
                   !.next_[handle] = t.next_[handle]]

\* C33: StartLiteral() selects, among the three literal buffers, one that
\* the current token does not reference (buffer 0 when it references none),
\* resets that buffer to empty and narrow, makes it the literal of the next
\* token, and changes nothing else: the other buffers and the handles of
\* the current token are as before. StartRawLiteral() does the same among
\* the three raw literal buffers.
C33_BufferSelection ==
  [][/\ op'.name = "StartLiteral" =>
          Selected(scanner, scanner', LiteralBuffers, "literal_buffer0_",
                   "literal_chars")
     /\ op'.name = "StartRawLiteral" =>
          Selected(scanner, scanner', RawLiteralBuffers,
                   "raw_literal_buffer0_", "raw_literal_chars")]_vars

\* Witness of C33: the current token references literal buffer 1, which
\* holds a character; StartLiteral() has selected buffer 2, and buffer 0
\* still holds the two-byte character of an earlier token.
C33_Witness ==
  /\ op.name = "StartLiteral"
  /\ scanner.current_.literal_chars = "literal_buffer1_"
  /\ scanner.next_.literal_chars = "literal_buffer2_"
  /\ Chars(scanner.literal_buffer1_) = <<97>>
  /\ Chars(scanner.literal_buffer0_) = <<256>>

(***************************************************************************)
(* Properties of PushBack (checked under SpecLow).                         *)
(***************************************************************************)

\* The number of code units of the source the character c occupies.
UnitsOccupied(c) == IF c > kMaxNonSurrogateCharCode THEN 2 ELSE 1

\* C34: PushBack(ch) undoes Advance(): whatever c0_ and ch are, it moves
\* the stream back by the code units c0_ occupied, pushing back c0_ itself
\* or, c0_ being a supplementary character, its trail and its lead
\* surrogate, and makes ch the character c0_; the Advance() that follows
\* gives c0_ and the position of the stream as they were before.
C34_PushBackInverse ==
  [][op'.name = "PushBack" =>
       /\ scanner'.c0_ = low.prev
       /\ pos(scanner'.source_)
            = pos(scanner.source_) - UnitsOccupied(scanner.c0_)
       /\ SubSeq(low'.trace, Len(low.trace) + 1, Len(low'.trace))
            = IF scanner.c0_ > kMaxNonSurrogateCharCode
              THEN <<StCall("PushBack", TrailSurrogate(scanner.c0_), 0),
                     StCall("PushBack", LeadSurrogate(scanner.c0_), 0)>>
              ELSE <<StCall("PushBack", scanner.c0_, 0)>>
       /\ Advance(scanner').c0_ = scanner.c0_
       /\ pos(Advance(scanner').source_) = pos(scanner.source_)]_vars

(***************************************************************************)
(* Properties of the bounds of the LiteralBuffer (checked under            *)
(* SpecLbEdge).                                                            *)
(***************************************************************************)

\* A write of `size` bytes at the offset `at` of a store of `capacity`
\* bytes.
Write(at, size, capacity) == [at |-> at, size |-> size, capacity |-> capacity]

\* The buffer AddChar writes a two-byte unit into: b with room for one more
\* unit and widened.
Widened(b) ==
  LET roomy == IF b.position_ >= Len(b.backing_store_) THEN ExpandBuffer(b)
               ELSE b
  IN  IF roomy.is_one_byte_ THEN ConvertToTwoByte(roomy) ELSE roomy

\* The buffer AddChar writes the trail surrogate into: b after the lead
\* surrogate, with room for one more unit.
AfterLead(b) ==
  LET led == [Widened(b) EXCEPT !.position_ = @ + kUC16Size]
  IN  IF led.position_ >= Len(led.backing_store_) THEN ExpandBuffer(led)
      ELSE led

\* The writes AddChar(code_unit) makes into the backing store of b, in
\* order, each with the capacity the store has when it is made.
AddCharWrites(b, code_unit) ==
  IF b.is_one_byte_ /\ code_unit <= kLatin1MaxChar
  THEN <<Write(b.position_, kOneByteSize,
               IF b.position_ >= Len(b.backing_store_)
               THEN Len(ExpandBuffer(b).backing_store_)
               ELSE Len(b.backing_store_))>>
  ELSE IF code_unit <= kMaxNonSurrogateCharCode
  THEN <<Write(Widened(b).position_, kUC16Size,
               Len(Widened(b).backing_store_))>>
  ELSE <<Write(Widened(b).position_, kUC16Size,
               Len(Widened(b).backing_store_)),
         Write(AfterLead(b).position_, kUC16Size,
               Len(AfterLead(b).backing_store_))>>

\* The write w lies inside the store.
Inside(w) == w.at >= 0 /\ w.at + w.size <= w.capacity

\* position_ of b is within the store, and even when b is wide.
WithinStore(b) ==
  /\ 0 <= b.position_
  /\ b.position_ <= Len(b.backing_store_)
  /\ ~b.is_one_byte_ => b.position_ % 2 = 0

\* C35: over every sequence of AddChar, ReduceLength (of at most length()
\* characters), Reset and CopyFrom, position_ is between 0 and the capacity
\* of the store and is even when the buffer is wide, and every write of
\* AddChar lies inside the store it is made into: the byte of a narrow
\* character, the two bytes of a unit, of the unit appended right after
\* widening and of each surrogate of a pair.
C35_BufferBounds ==
  /\ [](WithinStore(lb) /\ WithinStore(lb_other))
  /\ [][/\ lb_op' = "AddChar" =>
             \A k \in DOMAIN AddCharWrites(lb, lb_arg'.c) :
               Inside(AddCharWrites(lb, lb_arg'.c)[k])
        /\ lb_op' = "other.AddChar" =>
             \A k \in DOMAIN AddCharWrites(lb_other, lb_arg'.c) :
               Inside(AddCharWrites(lb_other, lb_arg'.c)[k])]_vars

\* Witness of C35: a supplementary character has been appended to a narrow
\* buffer of 31 characters; widening in place has left room for the lead
\* surrogate only, and the trail surrogate is in a larger store.
C35_Witness ==
  /\ lb_op = "AddChar" /\ lb_arg.c = 66561
  /\ lb_fill = 31 /\ lb_n = 1
  /\ ~is_one_byte(lb)
  /\ lb.position_ = 66
  /\ Len(lb.backing_store_) > 64
  /\ Chars(lb)[33] = TrailSurrogate(66561)

(***************************************************************************)
(* Properties of the bookmark (checked under SpecBm).                      *)
(***************************************************************************)

\* The bookmark reads as set and not as applied.
ReadsAsSet(s) == BookmarkHasBeenSet(s) /\ ~BookmarkHasBeenReset(s)

C37_RewindLeavesNoTrace ==
  [][op'.name = "ResetToBookmark" => Outside(scanner') = snap]_vars
(***************************************************************************)
(* The MoveOptimizer of src/unnamed/part_000.  An InstructionOperand is    *)
(* "k" (a constant), "i" (an immediate), a register "r1", "r2", or         *)
(* "invalid".  A gap of an instruction is a ParallelMove pointer: null, or *)
(* a list of MoveOperands.  parallel_moves()[0] is the field start,        *)
(* parallel_moves()[1] the field end.  The code given to OptimizeMerge is  *)
(* the last instruction of each predecessor, in the order of               *)
(* block->predecessors(), and the instructions of the merge block.         *)
(***************************************************************************)
MaxGapLen == 2

IsConstant(operand) == operand = "k"
IsImmediate(operand) == operand = "i"

MoveOperands(source, destination) ==
  [source |-> source, destination |-> destination]

Eliminated == MoveOperands("invalid", "invalid")
Eliminate(move) == [move EXCEPT !.source = "invalid", !.destination = "invalid"]
IsEliminated(move) == move.source = "invalid"
IsRedundant(move) == IsEliminated(move) \/ move.source = move.destination

NoParallelMove == [null |-> TRUE, move_operands |-> <<>>]
ParallelMove(move_operands) == [null |-> FALSE, move_operands |-> move_operands]
is_empty(move_operands) == Len(move_operands) = 0

\* parallel_moves()[0] == nullptr || ...->move_operands()->is_empty()
NullOrEmpty(gap) == gap.null \/ is_empty(gap.move_operands)

Instruction(kind, is_call, temps, outputs, inputs, start, end) ==
  [kind |-> kind, is_call |-> is_call, temps |-> temps, outputs |-> outputs,
   inputs |-> inputs, parallel_moves |-> [start |-> start, end |-> end]]

IsSourcePosition(instr) == instr.kind = "source position"
IsNop(instr) == instr.kind = "nop"
IsCall(instr) == instr.is_call
TempCount(instr) == instr.temps
OutputCount(instr) == instr.outputs
InputCount(instr) == Len(instr.inputs)
InputAt(instr, i) == instr.inputs[i]

GapsCanMoveOver(instr) == IsSourcePosition(instr) \/ IsNop(instr)

AreMovesRedundant(instr) ==
  \A gap \in {instr.parallel_moves.start, instr.parallel_moves.end} :
    gap.null \/ \A i \in DOMAIN gap.move_operands :
                  IsRedundant(gap.move_operands[i])

GetOrCreateParallelMove(gap) == IF gap.null THEN ParallelMove(<<>>) ELSE gap

\* The moves of a list that are not redundant, in the order of the list.
Live(move_operands) == SelectSeq(move_operands, LAMBDA move : ~IsRedundant(move))

\* ParallelMove::PrepareInsertAfter(move) on the list left: the move reads
\* what left wrote to its source, and the move of left that writes the
\* destination of the move is the one the merge kills.
PrepareInsertAfter(left, move) ==
  LET live == {i \in DOMAIN left : ~IsEliminated(left[i])}
      replacement == {i \in live : left[i].destination = move.source}
      to_eliminate == {i \in live : /\ left[i].destination # move.source
                                    /\ left[i].destination = move.destination}
      first(S) == CHOOSE i \in S : \A j \in S : i <= j
  IN  [move |-> IF replacement = {} THEN move
                ELSE [move EXCEPT !.source = left[first(replacement)].source],
       to_eliminate |-> IF to_eliminate = {} THEN {} ELSE {first(to_eliminate)}]

\* CompressMoves(eliminated, left, right) on the two lists.
CompressMoves(left, right) ==
  LET prepared == [i \in DOMAIN right |->
                     IF is_empty(left) \/ IsRedundant(right[i])
                     THEN [move |-> right[i], to_eliminate |-> {}]
                     ELSE PrepareInsertAfter(left, right[i])]
      eliminated == UNION {prepared[i].to_eliminate : i \in DOMAIN right}
      killed == [i \in DOMAIN left |->
                   IF i \in eliminated THEN Eliminate(left[i]) ELSE left[i]]
      modified == [i \in DOMAIN right |-> prepared[i].move]
  IN  [left |-> killed \o Live(modified), right |-> <<>>]

\* The first loop of OptimizeMerge, for one predecessor: TRUE when the loop
\* goes on to the next predecessor, FALSE when OptimizeMerge returns.
PermitsHoisting_IgnoresOutputs(last_instr) ==
  IF IsSourcePosition(last_instr) THEN TRUE
  ELSE IF IsCall(last_instr) THEN FALSE
  ELSE IF TempCount(last_instr) # 0 THEN FALSE
  ELSE \A i \in 1..InputCount(last_instr) :
         IsConstant(InputAt(last_instr, i)) \/ IsImmediate(InputAt(last_instr, i))

PermitsHoisting(last_instr) ==
  IF IsSourcePosition(last_instr) THEN TRUE
  ELSE IF IsCall(last_instr) THEN FALSE
  ELSE IF TempCount(last_instr) # 0 THEN FALSE
  ELSE IF OutputCount(last_instr) # 0 THEN FALSE
  ELSE \A i \in 1..InputCount(last_instr) :
         IsConstant(InputAt(last_instr, i)) \/ IsImmediate(InputAt(last_instr, i))

\* move_map and correct_counts before the second loop.
NoSharedMoves == [returned |-> FALSE, move_map |-> <<>>, correct_counts |-> 0]

\* The inner loop of the second loop: the moves of one predecessor.
RECURSIVE CountMoves(_, _, _, _)
CountMoves(move_ops, i, acc, PredecessorCount) ==
  IF i > Len(move_ops) THEN acc
  ELSE IF IsRedundant(move_ops[i])
  THEN CountMoves(move_ops, i + 1, acc, PredecessorCount)
  ELSE LET key == <<move_ops[i].source, move_ops[i].destination>>
           known == key \in DOMAIN acc.move_map
           count == IF known THEN acc.move_map[key] + 1 ELSE 1
           move_map == [k \in DOMAIN acc.move_map \cup {key} |->
                          IF k = key THEN count ELSE acc.move_map[k]]
           correct_counts == IF known /\ count = PredecessorCount
                             THEN acc.correct_counts + 1
                             ELSE acc.correct_counts
       IN  CountMoves(move_ops, i + 1,
                      [acc EXCEPT !.move_map = move_map,
                                  !.correct_counts = correct_counts],
                      PredecessorCount)

\* The second loop: accumulate the set of shared moves.
RECURSIVE AccumulateShared(_, _, _)
AccumulateShared(preds, p, acc) ==
  IF p > Len(preds) THEN acc
  ELSE IF NullOrEmpty(preds[p].parallel_moves.start)
  THEN [acc EXCEPT !.returned = TRUE]
  ELSE AccumulateShared(preds, p + 1,
         CountMoves(preds[p].parallel_moves.start.move_operands, 1, acc,
                    Len(preds)))

\* The third loop: find the insertion point.
RECURSIVE InsertionPoint(_, _)
InsertionPoint(block, i) ==
  IF i = Len(block) THEN i
  ELSE IF ~GapsCanMoveOver(block[i]) \/ ~AreMovesRedundant(block[i]) THEN i
  ELSE InsertionPoint(block, i + 1)

\* op->Eliminate() on every move of a predecessor that is not redundant.
Hoisted(last_instr) ==
  [last_instr EXCEPT !.parallel_moves.start.move_operands =
     [i \in DOMAIN @ |-> IF IsRedundant(@[i]) THEN @[i] ELSE Eliminate(@[i])]]

OptimizeMerge(m) ==
  LET preds == m.code.preds
      block == m.code.block
      acc == AccumulateShared(preds, 1, NoSharedMoves)
  IN  IF \E p \in DOMAIN preds : ~PermitsHoisting(preds[p]) THEN m
      ELSE IF acc.returned THEN m
      ELSE IF \/ DOMAIN acc.move_map = {}
              \/ acc.correct_counts # Cardinality(DOMAIN acc.move_map) THEN m
      ELSE
        LET at == InsertionPoint(block, 1)
            instr == block[at]
            gap_initialized == NullOrEmpty(instr.parallel_moves.start)
            swapped == IF gap_initialized THEN instr.parallel_moves
                       ELSE [start |-> instr.parallel_moves.end,
                             end |-> instr.parallel_moves.start]
            move == GetOrCreateParallelMove(swapped.start)
            added == move.move_operands
                       \o Live(preds[1].parallel_moves.start.move_operands)
            compressed == CompressMoves(added, swapped.end.move_operands)
        IN  [m EXCEPT
               !.code.preds = [p \in DOMAIN preds |-> Hoisted(preds[p])],
               !.code.block[at].parallel_moves =
                  IF gap_initialized
                  THEN [start |-> ParallelMove(added), end |-> swapped.end]
                  ELSE [start |-> ParallelMove(compressed.left),
                        end |-> ParallelMove(compressed.right)],
               !.to_finalize_ = IF gap_initialized THEN Append(@, at) ELSE @]

(***************************************************************************)
(* The code OptimizeMerge is run on.  Run() has called CompressBlock on    *)
(* every block before: a gap list is empty or holds a move that is not     *)
(* redundant, the redundant moves before the first such move are           *)
(* eliminated ones, the end gap of an instruction is null or empty, and an *)
(* instruction the gaps can move over keeps moves only as the last         *)
(* instruction of its block.  The moves of one gap that are not redundant  *)
(* write different destinations.                                           *)
(***************************************************************************)
SharedMoves == {MoveOperands("k", "r1"), MoveOperands("k", "r2")}

Compressed(move_ops) ==
  \/ is_empty(move_ops)
  \/ /\ \E i \in DOMAIN move_ops : ~IsRedundant(move_ops[i])
     /\ \A i, j \in DOMAIN move_ops :
          (i < j /\ ~IsRedundant(move_ops[i]) /\ ~IsRedundant(move_ops[j]))
            => move_ops[i].destination # move_ops[j].destination

ExampleGaps ==
  {<<MoveOperands("k", "r1"), MoveOperands("r1", "r1")>>,
   <<MoveOperands("r2", "r1")>>}

PredGaps ==
  {NoParallelMove} \cup
  {ParallelMove(move_ops) :
     move_ops \in ExampleGaps \cup
       {l \in UNION {[1..len -> SharedMoves \cup {Eliminated}] :
                       len \in 0..MaxGapLen} : Compressed(l)}}

\* The last instruction of a predecessor: a source position, a jump to a
\* constant target, a call, an instruction with a temp, one with an output,
\* a branch on a register.
LastInstructions(gap) ==
  {Instruction("source position", FALSE, 0, 0, <<>>, gap, NoParallelMove),
   Instruction("instruction", FALSE, 0, 0, <<"k", "i">>, gap, NoParallelMove),
   Instruction("instruction", TRUE, 0, 0, <<"i">>, gap, NoParallelMove),
   Instruction("instruction", FALSE, 1, 0, <<"i">>, gap, NoParallelMove),
   Instruction("instruction", FALSE, 0, 1, <<"i">>, gap, NoParallelMove),
   Instruction("instruction", FALSE, 0, 0, <<"r1", "i">>, gap, NoParallelMove)}

PredInstructions == UNION {LastInstructions(gap) : gap \in PredGaps}

JumpInstructions ==
  {Instruction("instruction", FALSE, 0, 0, <<"k", "i">>, gap, NoParallelMove) :
     gap \in PredGaps}

Add(start, end) ==
  Instruction("instruction", FALSE, 0, 1, <<"r1", "r2">>, start, end)
Nop(start, end) == Instruction("nop", FALSE, 0, 0, <<>>, start, end)
SourcePosition(start, end) ==
  Instruction("source position", FALSE, 0, 0, <<>>, start, end)

MergeBlocks ==
  {<<Add(NoParallelMove, NoParallelMove)>>,
   <<Add(ParallelMove(<<>>), NoParallelMove)>>,
   <<Add(ParallelMove(<<MoveOperands("r2", "r1")>>), NoParallelMove)>>,
   <<Add(ParallelMove(<<Eliminated, MoveOperands("r1", "r2")>>),
         ParallelMove(<<>>))>>,
   <<Nop(NoParallelMove, NoParallelMove),
     Add(ParallelMove(<<MoveOperands("r2", "r1")>>), NoParallelMove)>>,
   <<SourcePosition(ParallelMove(<<>>), NoParallelMove),
     Add(NoParallelMove, NoParallelMove)>>,
   <<Nop(NoParallelMove, NoParallelMove)>>,
   <<SourcePosition(ParallelMove(<<MoveOperands("r2", "r1")>>),
                    NoParallelMove)>>}

MoveOptimizer(code) ==
  [ran |-> FALSE, code |-> code, to_finalize_ |-> <<>>, given |-> code]

\* Two predecessors of any kind, or three that end in a jump.
MoInit ==
  /\ ScIdle /\ LbIdle /\ StIdle /\ DupUnused
  /\ \/ \E a \in PredInstructions, b \in PredInstructions,
           block \in MergeBlocks :
          mo = MoveOptimizer([preds |-> <<a, b>>, block |-> block])
     \/ \E a \in JumpInstructions, b \in JumpInstructions,
           c \in JumpInstructions, block \in MergeBlocks :
          mo = MoveOptimizer([preds |-> <<a, b, c>>, block |-> block])

DoOptimizeMerge ==
  /\ ~mo.ran
  /\ mo.code # NoCode
  /\ mo' = [OptimizeMerge(mo) EXCEPT !.ran = TRUE]
  /\ UNCHANGED <<lbvars, scvars, stvars, low, dupvars>>

MoNext == DoOptimizeMerge

SpecMo == MoInit /\ [][MoNext]_vars
(***************************************************************************)
(* Properties of MoveOptimizer::OptimizeMerge                              *)
(***************************************************************************)
\* The last instruction of a predecessor lets gap moves be hoisted over it.
Permits(last_instr) ==
  \/ last_instr.kind = "source position"
  \/ /\ ~last_instr.is_call
     /\ last_instr.temps = 0
     /\ last_instr.outputs = 0
     /\ \A i \in DOMAIN last_instr.inputs : last_instr.inputs[i] \in {"k", "i"}

\* The moves of a gap that are not redundant, as a set.
MoveSet(gap) ==
  IF gap.null THEN {}
  ELSE {gap.move_operands[i] :
          i \in {j \in DOMAIN gap.move_operands :
                   ~IsRedundant(gap.move_operands[j])}}

SharedSet(code) == MoveSet(code.preds[1].parallel_moves.start)

\* Every predecessor permits hoisting and all of them hold the same moves.
MayHoist(code) ==
  /\ \A p \in DOMAIN code.preds : Permits(code.preds[p])
  /\ SharedSet(code) # {}
  /\ \A p \in DOMAIN code.preds :
       MoveSet(code.preds[p].parallel_moves.start) = SharedSet(code)

\* How often a move stands in a gap.
Appearances(move, gap) ==
  Cardinality({i \in DOMAIN gap.move_operands : gap.move_operands[i] = move})

\* The gap of the merge block the moves are hoisted into.
MergeGap(code, given) ==
  code.block[InsertionPoint(given.block, 1)].parallel_moves.start

\* A move the merge block's gap already held writes the move's destination.
Killed(move, given) ==
  \E old \in MoveSet(MergeGap(given, given)) :
    old.destination = move.destination

\* The place AddMove gave the move in the merge block's gap.
Slot(move, given) ==
  CHOOSE i \in DOMAIN Live(given.preds[1].parallel_moves.start.move_operands) :
    Live(given.preds[1].parallel_moves.start.move_operands)[i] = move

EliminatedFromPreds(code) ==
  \A p \in DOMAIN code.preds : MoveSet(code.preds[p].parallel_moves.start) = {}

\* C38: OptimizeMerge hoists only when every predecessor's last instruction
\* permits it and the first gaps of all of them hold the same non-empty set
\* of moves that are not redundant; then each such move appears exactly once
\* in the merge block's gap and is eliminated from every predecessor, and in
\* every other case no instruction is modified.
C38_HoistsSharedMoves ==
  mo.ran =>
    IF MayHoist(mo.given)
    THEN /\ \A move \in SharedSet(mo.given) :
              Appearances(move, MergeGap(mo.code, mo.given)) = 1
         /\ EliminatedFromPreds(mo.code)
    ELSE mo.code = mo.given

\* C38, amended: as above, except that a hoisted move whose destination a
\* move already in the merge block's gap writes is eliminated from that gap
\* (the older move, which comes later, kills it); every other hoisted move
\* appears exactly once.
C38_HoistsUnlessKilled ==
  mo.ran =>
    IF MayHoist(mo.given)
    THEN /\ \A move \in SharedSet(mo.given) :
              IF Killed(move, mo.given)
              THEN IsEliminated(MergeGap(mo.code, mo.given)
                                  .move_operands[Slot(move, mo.given)])
              ELSE Appearances(move, MergeGap(mo.code, mo.given)) = 1
         /\ EliminatedFromPreds(mo.code)
    ELSE mo.code = mo.given

\* Three predecessors held two shared moves in different orders; one of the
\* moves was killed in the merge block's gap and the other stayed.
C38_Witness ==
  /\ mo.ran
  /\ MayHoist(mo.given)
  /\ Len(mo.given.preds) = 3
  /\ mo.given.preds[1].parallel_moves.start
       # mo.given.preds[2].parallel_moves.start
  /\ \E move \in SharedSet(mo.given) : Killed(move, mo.given)
  /\ \E move \in SharedSet(mo.given) : ~Killed(move, mo.given)
  /\ mo.code # mo.given

=============================================================================
